---------------------------- MODULE Spec2Model ----------------------------
(***************************************************************************)
(* Azure AI Search filter translator (AzureAISearchFilterTranslator):      *)
(* a structured filter object is rendered into an OData filter string.     *)
(*                                                                         *)
(* JavaScript strings are modelled as sequences of one-character strings,  *)
(* so that quoting, escaping, joining and trimming are computed character  *)
(* by character.  JavaScript objects are modelled as sequences of          *)
(* <<key, value>> entries in insertion order with distinct keys, which is  *)
(* what Object.entries observes.                                           *)
(*                                                                         *)
(* Azure AI Search vector store (AzureAISearchVector): the adapter's       *)
(* operations run as tasks that take one step per call to the external     *)
(* search service; the service's indexes and documents are the store.      *)
(***************************************************************************)
EXTENDS Integers, Sequences, FiniteSets, TLC

VARIABLES
    op,     \* the method that is invoked
    arg,    \* its argument(s)
    ret,    \* its completion: a returned value or a thrown error
    pc,     \* "call" before the method has run, "done" after
    store,  \* the search service: its indexes and their documents
    tasks   \* the adapter operations in flight, one per caller

vars == <<op, arg, ret, pc, store, tasks>>

-----------------------------------------------------------------------------
(* Bounds of the inputs *)

MaxStrLen == 2      \* longest string value
MaxEntries == 2     \* most (field, value) pairs in one comparison mapping
MaxFields == 2      \* most populated fields of a single-node filter
MaxNodes == 3       \* most nodes of a filter tree
MaxOps == 2         \* most adapter operations one caller invokes in a row

-----------------------------------------------------------------------------
(* Strings as character sequences *)

Concat(strs) ==
    LET RECURSIVE cat(_)
        cat(i) == IF i > Len(strs) THEN <<>> ELSE strs[i] \o cat(i + 1)
    IN cat(1)

\* Array.prototype.join
Join(strs, sep) ==
    LET RECURSIVE jn(_)
        jn(i) == IF i > Len(strs) THEN <<>>
                 ELSE IF i = Len(strs) THEN strs[i]
                 ELSE strs[i] \o sep \o jn(i + 1)
    IN jn(1)

WhiteSpace == {" ", "\t", "\n", "\r"}

\* String.prototype.trim
Trim(s) ==
    LET keep == {i \in 1..Len(s) : s[i] \notin WhiteSpace}
    IN IF keep = {} THEN <<>>
       ELSE LET lo == CHOOSE i \in keep : \A j \in keep : i <= j
                hi == CHOOSE i \in keep : \A j \in keep : j <= i
            IN SubSeq(s, lo, hi)

DigitChars == <<"0", "1", "2", "3", "4", "5", "6", "7", "8", "9">>

\* the decimal digits of a natural number
RECURSIVE NatToChars(_)
NatToChars(n) ==
    IF n < 10 THEN <<DigitChars[n + 1]>>
    ELSE NatToChars(n \div 10) \o <<DigitChars[(n % 10) + 1]>>

\* the decimal digits of n, padded with zeros on the left to width w
RECURSIVE PadStart(_, _)
PadStart(n, w) ==
    IF w <= 0 THEN <<>>
    ELSE PadStart(n \div 10, w - 1) \o <<DigitChars[(n % 10) + 1]>>

RECURSIVE Pow10(_)
Pow10(k) == IF k = 0 THEN 1 ELSE 10 * Pow10(k - 1)

-----------------------------------------------------------------------------
(* JavaScript values and completions *)

StrVal(s) == [t |-> "string", chars |-> s]
\* a finite number  (-1)^neg * mant / 10^scale, written without trailing zeros
NumVal(neg, mant, scale) ==
    [t |-> "number", fin |-> TRUE, neg |-> neg, mant |-> mant, scale |-> scale]
\* NaN, Infinity, -Infinity
NonFinite(name) == [t |-> "number", fin |-> FALSE, name |-> name]
BoolVal(b) == [t |-> "boolean", bool |-> b]
NullVal == [t |-> "null"]
UndefinedVal == [t |-> "undefined"]
\* a Date with time value day * msPerDay + msInDay
DateVal(day, ms) == [t |-> "date", valid |-> TRUE, day |-> day, msInDay |-> ms]
InvalidDate == [t |-> "date", valid |-> FALSE]

\* completions of a call
Returned(s) == [kind |-> "string", chars |-> s]
ReturnedList(l) == [kind |-> "array", items |-> l]
ReturnedUndefined == [kind |-> "undefined"]
Threw(e) == [kind |-> "throw", error |-> e]
Pending == [kind |-> "pending"]

IsThrow(r) == r.kind = "throw"

-----------------------------------------------------------------------------
(* Built-in conversions used by formatValue *)

\* the decimal digits of mant / 10^scale
DecimalString(mant, scale) ==
    NatToChars(mant \div Pow10(scale))
    \o (IF scale = 0 THEN <<>> ELSE <<".">> \o PadStart(mant % Pow10(scale), scale))

\* Number::toString for NaN, the infinities and decimals of moderate size
NumberToString(v) ==
    IF ~v.fin THEN
        CASE v.name = "NaN" -> <<"N", "a", "N">>
          [] v.name = "Infinity" -> <<"I", "n", "f", "i", "n", "i", "t", "y">>
          [] v.name = "-Infinity" -> <<"-", "I", "n", "f", "i", "n", "i", "t", "y">>
    ELSE (IF v.neg /\ v.mant # 0 THEN <<"-">> ELSE <<>>) \o DecimalString(v.mant, v.scale)

msPerDay == 86400000

\* the civil date <<year, month, day>> of a day number counted from 1970-01-01
MonthDay(year0, doy, mp) ==
    <<year0 + (IF mp < 10 THEN 0 ELSE 1),
      IF mp < 10 THEN mp + 3 ELSE mp - 9,
      doy - (153 * mp + 2) \div 5 + 1>>

YearDay(era, doe, yoe) ==
    MonthDay(yoe + era * 400,
             doe - (365 * yoe + yoe \div 4 - yoe \div 100),
             (5 * (doe - (365 * yoe + yoe \div 4 - yoe \div 100)) + 2) \div 153)

EraDay(era, doe) ==
    YearDay(era, doe,
            (doe - doe \div 1460 + doe \div 36524 - doe \div 146096) \div 365)

DateFromDay(dayNo) ==
    EraDay((dayNo + 719468) \div 146097, (dayNo + 719468) % 146097)

ISOYear(y) ==
    IF y >= 0 /\ y <= 9999 THEN PadStart(y, 4)
    ELSE IF y < 0 THEN <<"-">> \o PadStart(0 - y, 6)
    ELSE <<"+">> \o PadStart(y, 6)

ISOString(ymd, t) ==
    ISOYear(ymd[1]) \o <<"-">> \o PadStart(ymd[2], 2) \o <<"-">>
    \o PadStart(ymd[3], 2) \o <<"T">>
    \o PadStart(t \div 3600000, 2) \o <<":">>
    \o PadStart((t \div 60000) % 60, 2) \o <<":">>
    \o PadStart((t \div 1000) % 60, 2) \o <<".">>
    \o PadStart(t % 1000, 3) \o <<"Z">>

\* Date.prototype.toISOString: YYYY-MM-DDTHH:mm:ss.sssZ, an expanded year
\* outside 0..9999, and a RangeError for an invalid Date
DateToISOString(v) ==
    IF ~v.valid THEN Threw("RangeError")
    ELSE Returned(ISOString(DateFromDay(v.day), v.msInDay))

\* variant: only the first quote is doubled (replace with a string pattern)
RECURSIVE ReplaceFirstQuote(_)
ReplaceFirstQuote(s) ==
    IF s = <<>> THEN <<>>
    ELSE IF Head(s) = "'" THEN <<"'", "'">> \o Tail(s)
    ELSE <<Head(s)>> \o ReplaceFirstQuote(Tail(s))

\* String.prototype.replace(/'/g, "''")
RECURSIVE ReplaceAllQuotes(_)
ReplaceAllQuotes(s) ==
    IF s = <<>> THEN <<>>
    ELSE (IF Head(s) = "'" THEN <<"'", "'">> ELSE <<Head(s)>>)
         \o ReplaceAllQuotes(Tail(s))

-----------------------------------------------------------------------------
(* AzureAISearchFilterTranslator.formatValue *)

QuoteString(value) == <<"'">> \o ReplaceAllQuotes(value) \o <<"'">>

\* String(value) for a value that is neither a string nor a Date
JSString(value) ==
    CASE value.t = "number" -> NumberToString(value)
      [] value.t = "boolean" ->
            IF value.bool THEN <<"t", "r", "u", "e">> ELSE <<"f", "a", "l", "s", "e">>
      [] value.t = "null" -> <<"n", "u", "l", "l">>
      [] value.t = "undefined" -> <<"u", "n", "d", "e", "f", "i", "n", "e", "d">>

\* variant: only null is tested, undefined falls through to String(value)
IsNullOnly(value) == value.t = "null"

\* `value === null || value === undefined`
IsNullish(value) == value.t \in {"null", "undefined"}

formatValue(value) ==
    IF value.t = "string" THEN Returned(QuoteString(value.chars))
    ELSE IF value.t = "date" THEN DateToISOString(value)
    ELSE IF value.t = "boolean" THEN
        Returned(IF value.bool THEN <<"t", "r", "u", "e">>
                 ELSE <<"f", "a", "l", "s", "e">>)
    ELSE IF IsNullish(value) THEN Returned(<<"n", "u", "l", "l">>)
    ELSE Returned(JSString(value))

-----------------------------------------------------------------------------
(* Objects: entries in insertion order, keys distinct *)

Obj(entries) == [t |-> "object", entries |-> entries]

Has(obj, key) == \E i \in 1..Len(obj.entries) : obj.entries[i][1] = key

Get(obj, key) ==
    obj.entries[CHOOSE i \in 1..Len(obj.entries) : obj.entries[i][1] = key][2]

\* the truthiness test `if (filter.<key>)`: a missing property is undefined,
\* the empty string is falsy, every array and every object is truthy
Truthy(filter, key) ==
    /\ Has(filter, key)
    /\ key = "$filter" => Len(Get(filter, key)) > 0

\* the completion of evaluating rs[i], rs[i + 1], ... in order: the first thrown
\* error, or else the array of the strings they returned
RECURSIVE MapFrom(_, _)
MapFrom(rs, i) ==
    IF i > Len(rs) THEN ReturnedList(<<>>)
    ELSE LET r == rs[i]
         IN IF IsThrow(r) THEN r
            ELSE LET rest == MapFrom(rs, i + 1)
                 IN IF IsThrow(rest) THEN rest
                    ELSE ReturnedList(<<r.chars>> \o rest.items)

Map(rs) == MapFrom(rs, 1)

\* the same for pushes onto one array: the first thrown error, or else the
\* concatenation of the arrays
RECURSIVE PushAllFrom(_, _)
PushAllFrom(rs, i) ==
    IF i > Len(rs) THEN ReturnedList(<<>>)
    ELSE LET r == rs[i]
         IN IF IsThrow(r) THEN r
            ELSE LET rest == PushAllFrom(rs, i + 1)
                 IN IF IsThrow(rest) THEN rest
                    ELSE ReturnedList(r.items \o rest.items)

PushAll(rs) == PushAllFrom(rs, 1)

-----------------------------------------------------------------------------
(* Literal text of the template strings *)

SP == <<" ">>
L_and == <<" ", "a", "n", "d", " ">>
L_or == <<" ", "o", "r", " ">>
L_not == <<"n", "o", "t", " ", "(">>
L_ismatch == <<"s", "e", "a", "r", "c", "h", ".", "i", "s", "m", "a", "t", "c", "h", "(">>
L_any == <<"/", "a", "n", "y", "(">>
L_all == <<"/", "a", "l", "l", "(">>

\* the operator keyword passed for each comparison field
ComparisonOperator(key) ==
    CASE key = "eq" -> <<"e", "q">>
      [] key = "ne" -> <<"n", "e">>
      [] key = "gt" -> <<"g", "t">>
      [] key = "ge" -> <<"g", "e">>
      [] key = "lt" -> <<"l", "t">>
      [] key = "le" -> <<"l", "e">>

\* variant: the function name is the field's name as written (camel case)
StringFunctionNameAsWritten(key) ==
    CASE key = "contains" -> <<"c", "o", "n", "t", "a", "i", "n", "s">>
      [] key = "startsWith" -> <<"s", "t", "a", "r", "t", "s", "W", "i", "t", "h">>
      [] key = "endsWith" -> <<"e", "n", "d", "s", "W", "i", "t", "h">>

\* the function name passed for each string-operation field
StringFunctionName(key) ==
    CASE key = "contains" -> <<"c", "o", "n", "t", "a", "i", "n", "s">>
      [] key = "startsWith" -> <<"s", "t", "a", "r", "t", "s", "w", "i", "t", "h">>
      [] key = "endsWith" -> <<"e", "n", "d", "s", "w", "i", "t", "h">>

ComparisonKeys == {"eq", "ne", "gt", "ge", "lt", "le"}
StringOperationKeys == {"contains", "startsWith", "endsWith"}

-----------------------------------------------------------------------------
(* AzureAISearchFilterTranslator: the private helpers *)

\* variant: a name that holds a '/', a space or a '-' is wrapped in quotes
escapeFieldNameQuoting(field) ==
    IF \E i \in 1..Len(field) : field[i] \in {"/", " ", "-"}
    THEN <<"'">> \o field \o <<"'">>
    ELSE field

escapeFieldName(field) == field

\* variant: the space between the operator and the value is missing
ComparisonConditionNoSpace(field, operator, formattedValue) ==
    escapeFieldName(field) \o SP \o operator \o formattedValue

\* `${this.escapeFieldName(field)} ${operator} ${formattedValue}`
ComparisonCondition(field, operator, formattedValue) ==
    escapeFieldName(field) \o SP \o operator \o SP \o formattedValue

ComparisonEntry(field, operator, formattedValue) ==
    IF IsThrow(formattedValue) THEN formattedValue
    ELSE Returned(ComparisonCondition(field, operator, formattedValue.chars))

\* Object.entries(comparison).map(...): one condition per entry, in entry order
translateComparison(comparison, operator) ==
    Map([i \in 1..Len(comparison) |->
            ComparisonEntry(comparison[i][1], operator, formatValue(comparison[i][2]))])

\* variant: contains is rendered as a contains(field, value) call
IsMatchConditionAsCall(field, formattedValue) ==
    <<"c", "o", "n", "t", "a", "i", "n", "s", "(">> \o field \o <<",", " ">>
    \o formattedValue \o <<")">>

\* `search.ismatch(${formattedValue}, '${field}')`
IsMatchCondition(field, formattedValue) ==
    L_ismatch \o formattedValue \o <<",", " ", "'">> \o field \o <<"'", ")">>

\* `${functionName}(${escapedField}, ${formattedValue})`
FunctionCondition(functionName, escapedField, formattedValue) ==
    functionName \o <<"(">> \o escapedField \o <<",", " ">> \o formattedValue \o <<")">>

StringOperationEntry(field, escapedField, functionName, formattedValue) ==
    IF IsThrow(formattedValue) THEN formattedValue
    ELSE IF functionName = StringFunctionName("contains")
    THEN Returned(IsMatchCondition(field, formattedValue.chars))
    ELSE Returned(FunctionCondition(functionName, escapedField, formattedValue.chars))

translateStringOperation(operation, functionName) ==
    Map([i \in 1..Len(operation) |->
            StringOperationEntry(operation[i][1], escapeFieldName(operation[i][1]),
                                 functionName, formatValue(operation[i][2]))])

-----------------------------------------------------------------------------
(* AzureAISearchFilterTranslator.translateFilter *)

\* variant: children that render empty are kept
KeepAll(strs) == strs

\* Array.prototype.filter(Boolean) on strings: the empty string is dropped
FilterBoolean(strs) == SelectSeq(strs, LAMBDA s : Len(s) > 0)

\* `(${andConditions.join(' and ')})`
AndCondition(andConditions) == <<"(">> \o Join(andConditions, L_and) \o <<")">>

\* variant: the or block is not wrapped in parentheses
OrConditionBare(orConditions) == Join(orConditions, L_or)

\* `(${orConditions.join(' or ')})`
OrCondition(orConditions) == <<"(">> \o Join(orConditions, L_or) \o <<")">>

\* `not (${notCondition})`
NotCondition(notCondition) == L_not \o notCondition \o <<")">>

\* variant: the predicate is given the lambda variable prefix `x: `
AnyConditionWithVariable(any) ==
    any.collection \o L_any \o <<"x", ":", " ">> \o any.predicate \o <<")">>

\* `${collection}/any(${predicate})` and `${collection}/all(${predicate})`
AnyCondition(any) == any.collection \o L_any \o any.predicate \o <<")">>
AllCondition(all) == all.collection \o L_all \o all.predicate \o <<")">>

\* variant: the comparison blocks in the order gt, lt, ge, le
ConditionOrderLtBeforeGe ==
    <<"and", "or", "not", "eq", "ne", "gt", "lt", "ge", "le",
      "contains", "startsWith", "endsWith", "any", "all">>

\* the order of the `if (filter.<key>)` blocks that push onto `conditions`
ConditionOrder ==
    <<"and", "or", "not", "eq", "ne", "gt", "ge", "lt", "le",
      "contains", "startsWith", "endsWith", "any", "all">>

\* conditions.join(' and ')
JoinConditions(conditions) == Join(conditions, L_and)

\* the `and` / `or` block, given the translated children
LogicalBlock(key, translated) ==
    IF IsThrow(translated) THEN translated
    ELSE IF Len(FilterBoolean(translated.items)) > 0
    THEN ReturnedList(<<IF key = "and" THEN AndCondition(FilterBoolean(translated.items))
                        ELSE OrCondition(FilterBoolean(translated.items))>>)
    ELSE ReturnedList(<<>>)

\* variant: the not block pushes its condition even when the child renders empty
NotBlockAlways(notCondition) ==
    IF IsThrow(notCondition) THEN notCondition
    ELSE ReturnedList(<<NotCondition(notCondition.chars)>>)

\* the `not` block, given the translated child
NotBlock(notCondition) ==
    IF IsThrow(notCondition) THEN notCondition
    ELSE IF Len(notCondition.chars) > 0
    THEN ReturnedList(<<NotCondition(notCondition.chars)>>)
    ELSE ReturnedList(<<>>)

\* the end of translateFilter, given everything pushed onto `conditions`
JoinedConditions(conditions) ==
    IF IsThrow(conditions) THEN conditions
    ELSE Returned(JoinConditions(conditions.items))

RECURSIVE translateFilter(_), FieldConditions(_, _)

\* what the block of one field pushes onto `conditions`
FieldConditions(filter, key) ==
    IF ~Truthy(filter, key) THEN ReturnedList(<<>>)
    ELSE IF key \in {"and", "or"} THEN
        LogicalBlock(key, Map([i \in 1..Len(Get(filter, key)) |->
                                  translateFilter(Get(filter, key)[i])]))
    ELSE IF key = "not" THEN NotBlock(translateFilter(Get(filter, "not")))
    ELSE IF key \in ComparisonKeys THEN
        translateComparison(Get(filter, key), ComparisonOperator(key))
    ELSE IF key \in StringOperationKeys THEN
        translateStringOperation(Get(filter, key), StringFunctionName(key))
    ELSE IF key = "any" THEN ReturnedList(<<AnyCondition(Get(filter, "any"))>>)
    ELSE ReturnedList(<<AllCondition(Get(filter, "all"))>>)

\* variant: a node's raw filter is used wherever the node sits
translateFilterHonoringRaw(filter) ==
    IF Truthy(filter, "$filter") THEN Returned(Get(filter, "$filter"))
    ELSE JoinedConditions(PushAll([i \in 1..Len(ConditionOrder) |->
                                      FieldConditions(filter, ConditionOrder[i])]))

translateFilter(filter) ==
    JoinedConditions(PushAll([i \in 1..Len(ConditionOrder) |->
                                 FieldConditions(filter, ConditionOrder[i])]))

-----------------------------------------------------------------------------
(* AzureAISearchFilterTranslator.translate *)

\* variant: the raw filter is used only when it is the node's sole property
RawFilterOnlyWhenAlone(filter) ==
    Truthy(filter, "$filter") /\ Len(filter.entries) = 1

\* variant: the translated string is returned even when it is empty
TranslatedAlways(translated) == Returned(translated)

\* `if (!filter)`
FilterAbsent(filter) == filter.t \in {"undefined", "null"}

\* `if (filter.$filter)`
RawFilterProvided(filter) == Truthy(filter, "$filter")

\* `translated.length > 0 ? translated : undefined`
TranslatedOrUndefined(translated) ==
    IF Len(translated) > 0 THEN Returned(translated) ELSE ReturnedUndefined

\* `this.translateFilter(filter).trim()` and the return
TrimmedResult(r) ==
    IF IsThrow(r) THEN r ELSE TranslatedOrUndefined(Trim(r.chars))

\* variant: an absent filter yields the empty string
translateAbsentAsEmpty(filter) ==
    IF FilterAbsent(filter) THEN Returned(<<>>)
    ELSE IF RawFilterProvided(filter) THEN Returned(Get(filter, "$filter"))
    ELSE TrimmedResult(translateFilter(filter))

translate(filter) ==
    IF FilterAbsent(filter) THEN ReturnedUndefined
    ELSE IF RawFilterProvided(filter) THEN Returned(Get(filter, "$filter"))
    ELSE TrimmedResult(translateFilter(filter))

-----------------------------------------------------------------------------
(* The inputs the methods are called with *)

Alphabet == {"x", "'", " "}

\* every string over Alphabet of length at most n
RECURSIVE StringsUpTo(_)
StringsUpTo(n) ==
    IF n = 0 THEN {<<>>}
    ELSE LET shorter == StringsUpTo(n - 1)
         IN shorter \cup {Append(s, c) : s \in {u \in shorter : Len(u) = n - 1}, c \in Alphabet}

StringValues == {StrVal(s) : s \in StringsUpTo(MaxStrLen)}

NumberValues ==
    {NumVal(neg, m, 0) : neg \in BOOLEAN, m \in {0, 1, 2, 5, 10, 20, 300, 2020}}
    \cup {NumVal(FALSE, 2999, 2), NumVal(TRUE, 5, 1), NumVal(FALSE, 5, 2)}
    \cup {NonFinite(n) : n \in {"NaN", "Infinity", "-Infinity"}}

\* 1970-01-01, 2023-01-01, 1969-12-31, 2000-02-29, 9999-12-31, +010000-01-01,
\* 0000-01-01, -000001-12-31
SampleDays == {0, 19358, -1, 11016, 2932896, 2932897, -719528, -719529}
SampleMsInDay == {0, 3723004, msPerDay - 1}

ValidDateValues == {DateVal(d, ms) : d \in SampleDays, ms \in SampleMsInDay}
DateValues == ValidDateValues \cup {InvalidDate}

Values ==
    StringValues \cup NumberValues \cup DateValues
    \cup {BoolVal(TRUE), BoolVal(FALSE), NullVal, UndefinedVal}

\* plain names, and names that hold a '/', a space and a '-'
FieldNames == {<<"a">>, <<"b">>, <<"c", "/", "d">>, <<"c", " ", "d">>, <<"c", "-", "d">>}

\* the values used inside mappings: one or two of each type
MappingValues ==
    {StrVal(<<"x">>), StrVal(<<"x", "'">>), NumVal(FALSE, 10, 0), BoolVal(TRUE),
     NullVal, DateVal(19358, 0), InvalidDate}

\* Object.entries of every mapping with at most n entries and distinct fields
RECURSIVE Mappings(_)
Mappings(n) ==
    IF n = 0 THEN {<<>>}
    ELSE LET shorter == Mappings(n - 1)
         IN shorter \cup
            {Append(m, <<f, v>>) :
                m \in {u \in shorter : Len(u) = n - 1},
                f \in FieldNames, v \in MappingValues}

DistinctKeys(entries) ==
    \A i, j \in 1..Len(entries) : entries[i][1] = entries[j][1] => i = j

ComparisonMappings == {m \in Mappings(MaxEntries) : DistinctKeys(m)}

\* Record<string, string>: the mappings of contains / startsWith / endsWith
StringOperationValues == {StrVal(<<>>), StrVal(<<"x">>), StrVal(<<"x", "'">>), StrVal(<<"T", " ", ")">>)}

RECURSIVE StringMappings(_)
StringMappings(n) ==
    IF n = 0 THEN {<<>>}
    ELSE LET shorter == StringMappings(n - 1)
         IN shorter \cup
            {Append(m, <<f, v>>) :
                m \in {u \in shorter : Len(u) = n - 1},
                f \in FieldNames, v \in StringOperationValues}

StringOperationMappings == {m \in StringMappings(MaxEntries) : DistinctKeys(m)}

-----------------------------------------------------------------------------
(* Filter objects *)

EmptyNode == Obj(<<>>)
\* { eq: { a: 1 } }
LeafA == Obj(<< <<"eq", << <<(<<"a">>), NumVal(FALSE, 1, 0)>> >> >> >>)
\* { lt: { b: 10 }, eq: { a: 'x' } }: two populated fields, written lt first
LeafMulti ==
    Obj(<< <<"lt", << <<(<<"b">>), NumVal(FALSE, 10, 0)>> >> >>,
           <<"eq", << <<(<<"a">>), StrVal(<<"x">>)>> >> >> >>)
\* { $filter: 'r' }: a node that carries only a raw filter
RawNode == Obj(<< <<"$filter", <<"r">> >> >>)

LeafParts == {EmptyNode.entries, LeafA.entries, LeafMulti.entries}

\* Trees[n]: the filter trees of exactly n nodes.  A node is written as its leaf
\* fields followed by not, or, and (the reverse of the order they are read in).
\* ChildSeqs(T, m): the child arrays over T that hold m nodes in total.
RECURSIVE ChildSeqs(_, _)
ChildSeqs(T, m) ==
    IF m = 0 THEN {<<>>}
    ELSE UNION {{<<c>> \o rest : c \in T[k], rest \in ChildSeqs(T, m - k)} : k \in 1..m}

\* the not / or / and entries of a node whose children hold m nodes in total
LogicalEntries(T, m) ==
    IF m = 0 THEN {<<>>, << <<"and", <<>> >> >>, << <<"or", <<>> >> >>}
    ELSE {<< <<"not", c>> >> : c \in T[m]}
         \cup {<< <<"or", cs>> >> : cs \in ChildSeqs(T, m)}
         \cup {<< <<"and", cs>> >> : cs \in ChildSeqs(T, m)}
         \cup UNION {{<< <<"or", c1>>, <<"and", c2>> >> :
                        c1 \in ChildSeqs(T, k), c2 \in ChildSeqs(T, m - k)} : k \in 1..(m - 1)}
         \cup UNION {{<< <<"not", c>>, <<"or", cs>> >> :
                        c \in T[k], cs \in ChildSeqs(T, m - k)} : k \in 1..(m - 1)}
         \cup UNION {{<< <<"not", c>>, <<"and", cs>> >> :
                        c \in T[k], cs \in ChildSeqs(T, m - k)} : k \in 1..(m - 1)}

RECURSIVE TreesUpTo(_)
TreesUpTo(n) ==
    IF n = 0 THEN <<>>
    ELSE LET T == TreesUpTo(n - 1)
         IN Append(T, {Obj(leaf \o logical) :
                          leaf \in LeafParts, logical \in LogicalEntries(T, n - 1)})

FilterTrees == LET T == TreesUpTo(MaxNodes) IN UNION {T[n] : n \in 1..MaxNodes}

\* single nodes: every way of writing at most MaxFields of these properties
SampleEntries ==
    {<<"$filter", <<"r">> >>, <<"$filter", <<>> >>,
     <<"and", <<>> >>, <<"and", <<LeafA, EmptyNode, RawNode>> >>,
     <<"or", <<>> >>, <<"or", <<LeafMulti, LeafA>> >>,
     <<"not", LeafMulti>>, <<"not", RawNode>>,
     <<"eq", << <<(<<"a">>), StrVal(<<"x", "'">>)>> >> >>,
     <<"eq", << <<(<<"b">>), BoolVal(TRUE)>>, <<(<<"a">>), NullVal>> >> >>,
     <<"ne", << <<(<<"a">>), NumVal(FALSE, 2999, 2)>> >> >>,
     <<"gt", << <<(<<"a">>), DateVal(19358, 0)>> >> >>,
     <<"ge", << <<(<<"a">>), NumVal(FALSE, 2020, 0)>> >> >>,
     <<"lt", << <<(<<"a">>), NumVal(TRUE, 5, 0)>> >> >>,
     <<"le", <<>> >>,
     <<"contains", << <<(<<"a">>), StrVal(<<"x">>)>> >> >>,
     <<"startsWith", << <<(<<"a">>), StrVal(<<"x">>)>> >> >>,
     <<"endsWith", << <<(<<"a">>), StrVal(<<"x">>)>> >> >>,
     <<"any", [collection |-> <<"c">>, predicate |-> <<"p">>]>>,
     <<"all", [collection |-> <<"c">>, predicate |-> <<"p">>]>>}

RECURSIVE EntrySeqs(_)
EntrySeqs(n) ==
    IF n = 0 THEN {<<>>}
    ELSE LET shorter == EntrySeqs(n - 1)
         IN shorter \cup
            {Append(es, e) : es \in {u \in shorter : Len(u) = n - 1}, e \in SampleEntries}

SingleNodes == {Obj(es) : es \in {u \in EntrySeqs(MaxFields) : DistinctKeys(u)}}

\* one node with all fourteen fields populated, written in reverse order
AllFieldsNode ==
    Obj(<< <<"all", [collection |-> <<"c">>, predicate |-> <<"p">>]>>,
           <<"any", [collection |-> <<"c">>, predicate |-> <<"q">>]>>,
           <<"endsWith", << <<(<<"a">>), StrVal(<<"x">>)>> >> >>,
           <<"startsWith", << <<(<<"a">>), StrVal(<<"x">>)>> >> >>,
           <<"contains", << <<(<<"a">>), StrVal(<<"x">>)>> >> >>,
           <<"le", << <<(<<"a">>), NumVal(FALSE, 300, 0)>> >> >>,
           <<"lt", << <<(<<"a">>), NumVal(FALSE, 5, 0)>> >> >>,
           <<"ge", << <<(<<"a">>), NumVal(FALSE, 2020, 0)>> >> >>,
           <<"gt", << <<(<<"a">>), NumVal(FALSE, 10, 0)>> >> >>,
           <<"ne", << <<(<<"a">>), NullVal>> >> >>,
           <<"eq", << <<(<<"a">>), BoolVal(FALSE)>> >> >>,
           <<"not", LeafA>>,
           <<"or", <<LeafA, LeafMulti>> >>,
           <<"and", <<LeafMulti, LeafA>> >> >>)

\* the { collection, predicate } objects of any / all: the predicate is any text,
\* empty, a lambda, or something that is no predicate at all
Collections == {<<"c">>, <<"c", "/", "d">>}
Predicates ==
    {<<>>, <<"p">>, <<"t", ":", " ", "t", " ", "e", "q", " ", "1">>, <<")", " ", "o", "r", " ", "(">>}
Quantifiers == {[collection |-> c, predicate |-> p] : c \in Collections, p \in Predicates}

\* nodes with an any and / or an all field, alone or next to a comparison
QuantifierNodes ==
    {Obj(leaf \o <<(<<k, q>>)>>) :
        leaf \in {EmptyNode.entries, LeafA.entries}, k \in {"any", "all"}, q \in Quantifiers}
    \cup {Obj(<< <<"all", q1>>, <<"any", q2>> >>) : q1, q2 \in Quantifiers}

\* nodes with one string-operation field
StringOperationNodes ==
    {Obj(<<(<<k, m>>)>>) : k \in StringOperationKeys, m \in StringOperationMappings}

\* nodes with one comparison field, over every mapping (Date values included)
ComparisonNodes ==
    {Obj(<<(<<k, m>>)>>) : k \in {"eq", "gt"}, m \in ComparisonMappings}

\* { $filter: 'r', eq: { a: 1 } }: a raw filter next to a comparison
RawWithEq == Obj(RawNode.entries \o LeafA.entries)

\* nodes that carry a raw filter below an and, an or or a not
NestedRawNodes ==
    {Obj(<<(<<k, <<n>> >>)>>) : k \in {"and", "or"}, n \in {RawNode, RawWithEq}}
    \cup {Obj(<<(<<"not", n>>)>>) : n \in {RawNode, RawWithEq}}
    \cup {Obj(<<(<<k, <<n, LeafA>> >>)>>) : k \in {"and", "or"}, n \in {RawNode, RawWithEq}}
    \cup {Obj(<<(<<k, <<Obj(<<(<<"not", n>>)>>), LeafMulti>> >>)>>) :
            k \in {"and", "or"}, n \in {RawNode, RawWithEq}}
    \cup {Obj(RawNode.entries \o <<(<<"and", <<RawNode>> >>)>>),
          Obj(LeafA.entries \o <<(<<"not", RawNode>>)>>)}

Filters ==
    FilterTrees \cup SingleNodes \cup {AllFieldsNode} \cup QuantifierNodes
    \cup StringOperationNodes \cup ComparisonNodes \cup NestedRawNodes

-----------------------------------------------------------------------------
(* The calls *)

Calls ==
    {<<"translate", f>> : f \in Filters \cup {UndefinedVal, NullVal}}
    \cup {<<"translateFilter", f>> : f \in Filters}
    \cup {<<"translateComparison", [comparison |-> m, operator |-> ComparisonOperator(k)]>> :
            m \in ComparisonMappings, k \in ComparisonKeys}
    \cup {<<"translateStringOperation",
             [operation |-> m, functionName |-> StringFunctionName(k)]>> :
            m \in StringOperationMappings, k \in StringOperationKeys}
    \cup {<<"formatValue", v>> : v \in Values}

\* a translator call is about to be made; the adapter is not in use
Init ==
    /\ \E call \in Calls : op = call[1] /\ arg = call[2]
    /\ ret = Pending
    /\ pc = "call"
    /\ store = <<>>
    /\ tasks = <<>>

CallTranslate ==
    /\ pc = "call" /\ op = "translate"
    /\ ret' = translate(arg)
    /\ pc' = "done"
    /\ UNCHANGED <<op, arg, store, tasks>>

CallTranslateFilter ==
    /\ pc = "call" /\ op = "translateFilter"
    /\ ret' = translateFilter(arg)
    /\ pc' = "done"
    /\ UNCHANGED <<op, arg, store, tasks>>

CallTranslateComparison ==
    /\ pc = "call" /\ op = "translateComparison"
    /\ ret' = translateComparison(arg.comparison, arg.operator)
    /\ pc' = "done"
    /\ UNCHANGED <<op, arg, store, tasks>>

CallTranslateStringOperation ==
    /\ pc = "call" /\ op = "translateStringOperation"
    /\ ret' = translateStringOperation(arg.operation, arg.functionName)
    /\ pc' = "done"
    /\ UNCHANGED <<op, arg, store, tasks>>

CallFormatValue ==
    /\ pc = "call" /\ op = "formatValue"
    /\ ret' = formatValue(arg)
    /\ pc' = "done"
    /\ UNCHANGED <<op, arg, store, tasks>>

Next ==
    \/ CallTranslate
    \/ CallTranslateFilter
    \/ CallTranslateComparison
    \/ CallTranslateStringOperation
    \/ CallFormatValue

Spec == Init /\ [][Next]_vars

-----------------------------------------------------------------------------
(* Properties of translate *)

TranslateDone == pc = "done" /\ op = "translate"
TranslateFilterDone == pc = "done" /\ op = "translateFilter"

C2_EmptyRenderingIsUndefined ==
    TranslateDone =>
        /\ ret # Returned(<<>>)
        /\ (arg.t = "object" /\ ~Has(arg, "$filter")
              /\ translateFilter(arg) = Returned(<<>>))
            => ret = ReturnedUndefined

\* translate has returned undefined for a composite whose children all render
\* empty
C2_Witness ==
    /\ TranslateDone /\ ret = ReturnedUndefined
    /\ arg.t = "object" /\ ~Has(arg, "$filter")
    /\ Has(arg, "and") /\ Len(Get(arg, "and")) > 0

\* C3: translate of an absent (undefined) filter returns undefined.
C3_AbsentIsUndefined ==
    (TranslateDone /\ arg.t = "undefined") => ret = ReturnedUndefined

\* translate has been called without a filter and has returned
C3_Witness == TranslateDone /\ arg.t = "undefined" /\ ret.kind = "undefined"

-----------------------------------------------------------------------------
(* Properties of formatValue *)

FormatValueDone == pc = "done" /\ op = "formatValue"

CountQuotes(s) == Cardinality({i \in 1..Len(s) : s[i] = "'"})

\* reading a quoted literal back: the text between the outer quotes with each
\* pair of quotes standing for one quote; <<"!">> when a quote stands alone
RECURSIVE UnescapeQuotes(_)
UnescapeQuotes(s) ==
    IF s = <<>> THEN <<>>
    ELSE IF Head(s) # "'" THEN <<Head(s)>> \o UnescapeQuotes(Tail(s))
    ELSE IF Len(s) >= 2 /\ s[2] = "'" THEN <<"'">> \o UnescapeQuotes(Tail(Tail(s)))
    ELSE <<"!">>

\* C9: a string value is wrapped in single quotes with every quote inside it
\* doubled: the literal holds 2 + 2 * (quotes of the value) quote characters, is
\* longer than the value by 2 + (quotes of the value), and reads back as the value.
C9_StringLiteralDoublesEveryQuote ==
    (FormatValueDone /\ arg.t = "string") =>
        /\ ret.kind = "string"
        /\ Len(ret.chars) = Len(arg.chars) + 2 + CountQuotes(arg.chars)
        /\ Head(ret.chars) = "'" /\ ret.chars[Len(ret.chars)] = "'"
        /\ CountQuotes(ret.chars) = 2 + 2 * CountQuotes(arg.chars)
        /\ UnescapeQuotes(SubSeq(ret.chars, 2, Len(ret.chars) - 1)) = arg.chars

\* formatValue has returned the literal of a string that holds two quotes
C9_Witness ==
    /\ FormatValueDone /\ arg.t = "string"
    /\ CountQuotes(arg.chars) >= 2
    /\ CountQuotes(ret.chars) >= 6


\* reading decimal digits back; -1 when a character is not a digit
DigitValue(c) ==
    IF \E d \in 0..9 : DigitChars[d + 1] = c
    THEN CHOOSE d \in 0..9 : DigitChars[d + 1] = c
    ELSE -1

RECURSIVE ParseNat(_)
ParseNat(s) ==
    IF s = <<>> THEN -1
    ELSE IF DigitValue(s[Len(s)]) < 0 THEN -1
    ELSE IF Len(s) = 1 THEN DigitValue(s[1])
    ELSE IF ParseNat(SubSeq(s, 1, Len(s) - 1)) < 0 THEN -1
    ELSE 10 * ParseNat(SubSeq(s, 1, Len(s) - 1)) + DigitValue(s[Len(s)])

\* the day number of a civil date, counted from 1970-01-01
DayFromDate(year, month, day) ==
    LET y == IF month <= 2 THEN year - 1 ELSE year
        era == y \div 400
        yoe == y - era * 400
        doy == (153 * (IF month > 2 THEN month - 3 ELSE month + 9) + 2) \div 5 + day - 1
        doe == yoe * 365 + yoe \div 4 - yoe \div 100 + doy
    IN era * 146097 + doe - 719468

\* reading an ISO-8601 date-time back: <<day number, ms in day>>, or <<>> when the
\* text is not of the form [+-YY]YYYY-MM-DDTHH:mm:ss.sssZ
ParseISO(s) ==
    LET signed == Len(s) > 0 /\ s[1] \in {"+", "-"}
        o == IF signed THEN 3 ELSE 0
        yearDigits == ParseNat(SubSeq(s, IF signed THEN 2 ELSE 1, o + 4))
        year == IF signed /\ s[1] = "-" THEN 0 - yearDigits ELSE yearDigits
        month == ParseNat(SubSeq(s, o + 6, o + 7))
        day == ParseNat(SubSeq(s, o + 9, o + 10))
        hh == ParseNat(SubSeq(s, o + 12, o + 13))
        mm == ParseNat(SubSeq(s, o + 15, o + 16))
        ss == ParseNat(SubSeq(s, o + 18, o + 19))
        ms == ParseNat(SubSeq(s, o + 21, o + 23))
    IN IF /\ Len(s) = o + 24
          /\ s[o + 5] = "-" /\ s[o + 8] = "-" /\ s[o + 11] = "T"
          /\ s[o + 14] = ":" /\ s[o + 17] = ":" /\ s[o + 20] = "." /\ s[o + 24] = "Z"
          /\ yearDigits >= 0 /\ month \in 1..12 /\ day \in 1..31
          /\ hh \in 0..23 /\ mm \in 0..59 /\ ss \in 0..59 /\ ms \in 0..999
          /\ signed = (year < 0 \/ year > 9999)
       THEN <<DayFromDate(year, month, day),
              ((hh * 60 + mm) * 60 + ss) * 1000 + ms>>
       ELSE <<>>

\* reading a decimal numeral back: <<negative, mantissa, scale>>, or <<>>
ParseDecimal(s) ==
    LET neg == Len(s) > 0 /\ s[1] = "-"
        body == IF neg THEN Tail(s) ELSE s
        dots == {i \in 1..Len(body) : body[i] = "."}
        dot == IF dots = {} THEN Len(body) + 1 ELSE CHOOSE i \in dots : TRUE
        whole == ParseNat(SubSeq(body, 1, dot - 1))
        scale == IF dots = {} THEN 0 ELSE Len(body) - dot
        frac == IF scale = 0 THEN 0 ELSE ParseNat(SubSeq(body, dot + 1, Len(body)))
    IN IF Cardinality(dots) <= 1 /\ whole >= 0 /\ frac >= 0
          /\ (dots # {} => scale > 0)
       THEN <<neg, whole * Pow10(scale) + frac, scale>>
       ELSE <<>>

\* C10: for a value that is not a string, formatValue returns unquoted text:
\* true or false for a boolean, null for null and for undefined, the ISO-8601
\* date-time (which reads back as the same instant) for a valid Date, and the
\* default string conversion (which reads back as the same number) for a number.
C10_NonStringsByType ==
    (FormatValueDone /\ arg.t # "string" /\ arg # InvalidDate) =>
        /\ ret.kind = "string"
        /\ CountQuotes(ret.chars) = 0
        /\ arg.t = "boolean" =>
              ret.chars = (IF arg.bool THEN <<"t", "r", "u", "e">>
                           ELSE <<"f", "a", "l", "s", "e">>)
        /\ arg.t \in {"null", "undefined"} => ret.chars = <<"n", "u", "l", "l">>
        /\ arg.t = "date" => ParseISO(ret.chars) = <<arg.day, arg.msInDay>>
        /\ (arg.t = "number" /\ arg.fin) =>
              ParseDecimal(ret.chars) = <<arg.neg /\ arg.mant # 0, arg.mant, arg.scale>>
        /\ (arg.t = "number" /\ ~arg.fin) =>
              ret.chars = (CASE arg.name = "NaN" -> <<"N", "a", "N">>
                             [] arg.name = "Infinity" ->
                                    <<"I", "n", "f", "i", "n", "i", "t", "y">>
                             [] arg.name = "-Infinity" ->
                                    <<"-", "I", "n", "f", "i", "n", "i", "t", "y">>)

\* formatValue has returned the 24-character date-time of a Date that is not at
\* midnight
C10_Witness ==
    /\ FormatValueDone /\ arg.t = "date" /\ arg # InvalidDate
    /\ arg.msInDay > 0
    /\ ret.kind = "string" /\ Len(ret.chars) = 24

-----------------------------------------------------------------------------
(* Properties of translateFilter and translateComparison *)

TextAnd == <<" ", "a", "n", "d", " ">>
TextOr == <<" ", "o", "r", " ">>
TextNotOpen == <<"n", "o", "t", " ", "(">>

NonEmpty(strs) == SelectSeq(strs, LAMBDA str : str # <<>>)

\* the node with only / without the properties named in keys
Only(node, keys) == Obj(SelectSeq(node.entries, LAMBDA e : e[1] \in keys))
Without(node, keys) == Obj(SelectSeq(node.entries, LAMBDA e : e[1] \notin keys))

RECURSIVE Reverse(_)
Reverse(seq) == IF seq = <<>> THEN <<>> ELSE Append(Reverse(Tail(seq)), Head(seq))

\* what the claim says an and / or field contributes
ExpectedLogical(children, connective) ==
    LET survivors == NonEmpty([i \in 1..Len(children) |-> translateFilter(children[i]).chars])
    IN IF survivors = <<>> THEN <<>>
       ELSE <<"(">> \o Join(survivors, connective) \o <<")">>

\* what the claim says a not field contributes
ExpectedNot(child) ==
    LET rendered == translateFilter(child).chars
    IN IF rendered = <<>> THEN <<>> ELSE TextNotOpen \o rendered \o <<")">>

\* C5: an and (or) field contributes the renderings of its children, in order,
\* without those that are empty, joined with " and " (" or ") inside exactly one
\* pair of parentheses, and contributes nothing when no child survives.  The and
\* field comes first in the node's text, the or field right after it.
C5_AndOrDropEmptyAndParenthesize ==
    (TranslateFilterDone /\ ret.kind = "string") =>
        /\ Has(arg, "and") =>
              ret.chars =
                Join(NonEmpty(<<ExpectedLogical(Get(arg, "and"), TextAnd),
                                translateFilter(Without(arg, {"and"})).chars>>), TextAnd)
        /\ Has(arg, "or") =>
              ret.chars =
                Join(NonEmpty(<<translateFilter(Only(arg, {"and"})).chars,
                                ExpectedLogical(Get(arg, "or"), TextOr),
                                translateFilter(Without(arg, {"and", "or"})).chars>>),
                     TextAnd)

\* translateFilter has rendered an or field of which one child was dropped and
\* one survived
C5_Witness ==
    /\ TranslateFilterDone /\ ret.kind = "string"
    /\ Has(arg, "or") /\ Len(arg.entries) = 1
    /\ Len(Get(arg, "or")) = 2
    /\ \E i \in 1..2 : translateFilter(Get(arg, "or")[i]) = Returned(<<>>)
    /\ Len(ret.chars) > 2
    /\ Head(ret.chars) = "(" /\ ret.chars[Len(ret.chars)] = ")"

\* C6: a not field contributes "not (" + the child's rendering + ")" when that
\* rendering is not empty, and nothing when it is empty; it comes after the and
\* and or fields in the node's text.
C6_NotWrapsNonEmptyChild ==
    (TranslateFilterDone /\ ret.kind = "string" /\ Has(arg, "not")) =>
        ret.chars =
          Join(NonEmpty(<<translateFilter(Only(arg, {"and", "or"})).chars,
                          ExpectedNot(Get(arg, "not")),
                          translateFilter(Without(arg, {"and", "or", "not"})).chars>>),
               TextAnd)

\* translateFilter has rendered a node whose only field is a not over a child
\* that renders non-empty
C6_Witness ==
    /\ TranslateFilterDone /\ ret.kind = "string"
    /\ Has(arg, "not") /\ Len(arg.entries) = 1
    /\ translateFilter(Get(arg, "not")).chars # <<>>
    /\ SubSeq(ret.chars, 1, 5) = TextNotOpen

\* the order the claim gives
ClaimedOrder ==
    <<"and", "or", "not", "eq", "ne", "gt", "ge", "lt", "le",
      "contains", "startsWith", "endsWith", "any", "all">>

\* C7: the text of a node is the conditions of its populated fields, taken in the
\* order and, or, not, eq, ne, gt, ge, lt, le, contains, startsWith, endsWith,
\* any, all, joined with " and " and nothing else; writing the same fields in
\* the opposite order gives the same text.
C7_FixedFieldOrderJoinedWithAnd ==
    (TranslateFilterDone /\ ret.kind = "string") =>
        /\ ret.chars =
             Join(Concat([i \in 1..Len(ClaimedOrder) |->
                             FieldConditions(arg, ClaimedOrder[i]).items]), TextAnd)
        /\ translateFilter(Obj(Reverse(arg.entries))) = ret

\* translateFilter has rendered a node with all fourteen fields, written in the
\* reverse of the claimed order
C7_Witness ==
    /\ TranslateFilterDone /\ ret.kind = "string"
    /\ Len(arg.entries) = Len(ClaimedOrder)
    /\ \A i \in 1..Len(ClaimedOrder) :
          arg.entries[i][1] = ClaimedOrder[Len(ClaimedOrder) + 1 - i]
    /\ Len(ret.chars) > 0

\* the keyword of a comparison field: the characters of the field's name
KeywordOf(key) ==
    CASE key = "eq" -> <<"e", "q">> [] key = "ne" -> <<"n", "e">>
      [] key = "gt" -> <<"g", "t">> [] key = "ge" -> <<"g", "e">>
      [] key = "lt" -> <<"l", "t">> [] key = "le" -> <<"l", "e">>

\* C8: translateComparison returns one condition per entry of the mapping, in
\* entry order, each `<field> <operator> <formatted value>`; and a node with one
\* comparison field renders those conditions with the field's own name as the
\* operator keyword.
C8_OneConditionPerEntry ==
    /\ (pc = "done" /\ op = "translateComparison" /\ ret.kind = "array") =>
          /\ Len(ret.items) = Len(arg.comparison)
          /\ \A i \in 1..Len(arg.comparison) :
                ret.items[i] =
                  arg.comparison[i][1] \o <<" ">> \o arg.operator \o <<" ">>
                  \o formatValue(arg.comparison[i][2]).chars
    /\ (TranslateFilterDone /\ ret.kind = "string" /\ Len(arg.entries) = 1
          /\ arg.entries[1][1] \in ComparisonKeys) =>
          ret.chars =
            Join([i \in 1..Len(arg.entries[1][2]) |->
                    arg.entries[1][2][i][1] \o <<" ">> \o KeywordOf(arg.entries[1][1])
                    \o <<" ">> \o formatValue(arg.entries[1][2][i][2]).chars], TextAnd)

\* translateComparison has returned two conditions for a mapping of two entries
C8_Witness ==
    /\ pc = "done" /\ op = "translateComparison" /\ ret.kind = "array"
    /\ Len(arg.comparison) = 2 /\ Len(ret.items) = 2
    /\ ret.items[1] # ret.items[2]

-----------------------------------------------------------------------------
(* Reading a rendered filter with the precedence of the filter language *)

\* the tokens of a filter text: parentheses, and the words between spaces, where
\* a quoted literal (with '' for a quote inside it) is part of one word
\* the quotes of s[i..j] are even in number: position j + 1 is outside a quoted
\* literal of the word that starts at i (a quote inside a literal is written twice)
LiteralClosed(s, i, j) == Cardinality({k \in i..j : s[k] = "'"}) % 2 = 0

\* the positions where the word that starts at i may end: before a space or a
\* parenthesis outside a literal, or at the end of the text
WordEnds(s, i) ==
    {j \in i..Len(s) :
        j = Len(s) \/ (s[j + 1] \in {" ", "(", ")"} /\ LiteralClosed(s, i, j))}

WordEnd(s, i) == CHOOSE j \in WordEnds(s, i) : \A k \in WordEnds(s, i) : j <= k

RECURSIVE TokensFrom(_, _)
TokensFrom(s, i) ==
    IF i > Len(s) THEN <<>>
    ELSE IF s[i] = " " THEN TokensFrom(s, i + 1)
    ELSE IF s[i] \in {"(", ")"} THEN <<(<<s[i]>>)>> \o TokensFrom(s, i + 1)
    ELSE <<SubSeq(s, i, WordEnd(s, i))>> \o TokensFrom(s, WordEnd(s, i) + 1)

Tokens(s) == TokensFrom(s, 1)

TokNot == <<"n", "o", "t">>
TokAnd == <<"a", "n", "d">>
TokOr == <<"o", "r">>
TokOpen == <<"(">>
TokClose == <<")">>
Comparators == {<<"e", "q">>, <<"n", "e">>, <<"g", "t">>, <<"g", "e">>, <<"l", "t">>, <<"l", "e">>}
Reserved == {TokNot, TokAnd, TokOr, TokOpen, TokClose} \cup Comparators

\* a parse result: whether the text parsed, its truth value under `facts` (the
\* set of comparisons <<field, comparator, literal>> that are true), and the
\* index of the next token
Parsed(v, n) == [ok |-> TRUE, val |-> v, next |-> n]
Failed == [ok |-> FALSE, val |-> FALSE, next |-> 0]

TokenAt(toks, i) == IF i >= 1 /\ i <= Len(toks) THEN toks[i] ELSE <<>>

RECURSIVE ParseOr(_, _, _), ParseOrRest(_, _, _), ParseAnd(_, _, _),
          ParseAndRest(_, _, _), ParseNot(_, _, _), ParsePrimary(_, _, _)

\* or binds weakest
ParseOr(toks, i, facts) == ParseOrRest(toks, ParseAnd(toks, i, facts), facts)

ParseOrRest(toks, left, facts) ==
    IF ~left.ok THEN Failed
    ELSE IF TokenAt(toks, left.next) # TokOr THEN left
    ELSE LET right == ParseAnd(toks, left.next + 1, facts)
         IN IF ~right.ok THEN Failed
            ELSE ParseOrRest(toks, Parsed(left.val \/ right.val, right.next), facts)

\* and binds tighter than or
ParseAnd(toks, i, facts) == ParseAndRest(toks, ParseNot(toks, i, facts), facts)

ParseAndRest(toks, left, facts) ==
    IF ~left.ok THEN Failed
    ELSE IF TokenAt(toks, left.next) # TokAnd THEN left
    ELSE LET right == ParseNot(toks, left.next + 1, facts)
         IN IF ~right.ok THEN Failed
            ELSE ParseAndRest(toks, Parsed(left.val /\ right.val, right.next), facts)

\* not binds tighter than and
ParseNot(toks, i, facts) ==
    IF TokenAt(toks, i) = TokNot
    THEN LET operand == ParseNot(toks, i + 1, facts)
         IN IF operand.ok THEN Parsed(~operand.val, operand.next) ELSE Failed
    ELSE ParsePrimary(toks, i, facts)

\* a parenthesized expression or a comparison `field comparator literal`
ParsePrimary(toks, i, facts) ==
    IF TokenAt(toks, i) = TokOpen
    THEN LET inner == ParseOr(toks, i + 1, facts)
         IN IF inner.ok /\ TokenAt(toks, inner.next) = TokClose
            THEN Parsed(inner.val, inner.next + 1) ELSE Failed
    ELSE IF /\ i + 2 <= Len(toks)
            /\ toks[i] \notin Reserved
            /\ toks[i + 1] \in Comparators
            /\ toks[i + 2] \notin Reserved
         THEN Parsed(<<toks[i], toks[i + 1], toks[i + 2]>> \in facts, i + 3)
         ELSE Failed

-----------------------------------------------------------------------------
(* The meaning of a filter tree of and / or / not and comparisons *)

LogicalKeys == {"and", "or", "not"}

\* the tree holds only and / or / not and comparison fields, and every value formats
RECURSIVE IsLogicalTree(_)
IsLogicalTree(node) ==
    \A i \in 1..Len(node.entries) :
        LET key == node.entries[i][1]
            val == node.entries[i][2]
        IN CASE key \in {"and", "or"} -> \A j \in 1..Len(val) : IsLogicalTree(val[j])
             [] key = "not" -> IsLogicalTree(val)
             [] key \in ComparisonKeys -> \A j \in 1..Len(val) : val[j][2] # InvalidDate
             [] OTHER -> FALSE

\* a comparison of the tree as it is named in the text
Fact(field, key, value) == <<field, KeywordOf(key), formatValue(value).chars>>

RECURSIVE FactsOf(_)
FactsOf(node) ==
    UNION {LET key == node.entries[i][1]
               val == node.entries[i][2]
           IN CASE key \in {"and", "or"} -> UNION {FactsOf(val[j]) : j \in 1..Len(val)}
                [] key = "not" -> FactsOf(val)
                [] OTHER -> {Fact(val[j][1], key, val[j][2]) : j \in 1..Len(val)}
           : i \in 1..Len(node.entries)}

\* meanings: a truth value, or nothing when the node constrains nothing
Means(v) == [some |-> TRUE, val |-> v]
Nothing == [some |-> FALSE, val |-> TRUE]

\* the meaning of a node under `facts`: the conjunction of its populated fields,
\* where an and / or ranges over the children that mean something and a not, an
\* and or an or over nothing means nothing
RECURSIVE Meaning(_, _)
Meaning(node, facts) ==
    LET part(i) ==
            LET key == node.entries[i][1]
                val == node.entries[i][2]
            IN IF key \in {"and", "or"} THEN
                   LET ms == {Meaning(val[j], facts) : j \in 1..Len(val)}
                       some == {m \in ms : m.some}
                   IN IF some = {} THEN Nothing
                      ELSE IF key = "and" THEN Means(\A m \in some : m.val)
                      ELSE Means(\E m \in some : m.val)
               ELSE IF key = "not" THEN
                   LET m == Meaning(val, facts)
                   IN IF m.some THEN Means(~m.val) ELSE Nothing
               ELSE IF Len(val) = 0 THEN Nothing
               ELSE Means(\A j \in 1..Len(val) : Fact(val[j][1], key, val[j][2]) \in facts)
        parts == {part(i) : i \in 1..Len(node.entries)}
        some == {m \in parts : m.some}
    IN IF some = {} THEN Nothing ELSE Means(\A m \in some : m.val)

\* the text translate has returned reads as its argument means, whatever the
\* truth of the comparisons
ReadsAsTheTree ==
    \A facts \in SUBSET FactsOf(arg) :
        IF ret.kind = "undefined" THEN ~Meaning(arg, facts).some
        ELSE /\ ret.kind = "string"
             /\ Meaning(arg, facts).some
             /\ LET toks == Tokens(ret.chars)
                    read == ParseOr(toks, 1, facts)
                IN /\ read.ok
                   /\ read.next = Len(toks) + 1
                   /\ read.val = Meaning(arg, facts).val

\* the field name is one word of the filter text, and no keyword
IsWordField(field) ==
    /\ field # <<>>
    /\ field \notin Reserved
    /\ \A i \in 1..Len(field) : field[i] \notin {" ", "(", ")", "'"}

RECURSIVE HasWordFields(_)
HasWordFields(node) ==
    \A i \in 1..Len(node.entries) :
        LET key == node.entries[i][1]
            val == node.entries[i][2]
        IN CASE key \in {"and", "or"} -> \A j \in 1..Len(val) : HasWordFields(val[j])
             [] key = "not" -> HasWordFields(val)
             [] key \in ComparisonKeys -> \A j \in 1..Len(val) : IsWordField(val[j][1])
             [] OTHER -> TRUE

\* C4: for a tree of and / or / not and comparisons, the text translate returns,
\* read with not binding tighter than and, and tighter than or, and parentheses
\* overriding, has the truth value of the tree under every assignment of truth
\* values to its comparisons; translate returns undefined exactly when the tree
\* constrains nothing.
C4_TextReadsAsTheTree ==
    (TranslateDone /\ arg.t = "object" /\ IsLogicalTree(arg)) => ReadsAsTheTree

\* C4, amended: the same, for the trees whose field names are each one word of
\* the filter text: no white space, parenthesis or quote in the name, and the
\* name no keyword (not, and, or, a comparison operator). Field names are
\* written into the text as they are, so any other name is read as something
\* else than the field of one comparison.
C4_TextOfWordFieldsReadsAsTheTree ==
    (TranslateDone /\ arg.t = "object" /\ IsLogicalTree(arg) /\ HasWordFields(arg))
        => ReadsAsTheTree

\* translate has rendered a node that carries comparisons of its own next to an
\* or over two children, one of them with two fields
C4_Witness ==
    /\ TranslateDone /\ arg.t = "object" /\ IsLogicalTree(arg) /\ HasWordFields(arg)
    /\ ret.kind = "string"
    /\ Has(arg, "or") /\ Len(arg.entries) >= 2
    /\ Len(Get(arg, "or")) = 2
    /\ \E i \in 1..2 : Len(Get(arg, "or")[i].entries) = 2
    /\ Cardinality(FactsOf(arg)) >= 3

-----------------------------------------------------------------------------
(* Properties of the string operations, field names and any / all *)

StringOperationDone == pc = "done" /\ op = "translateStringOperation"

TextContains == <<"c", "o", "n", "t", "a", "i", "n", "s">>
TextIsMatchOpen == <<"s", "e", "a", "r", "c", "h", ".", "i", "s", "m", "a", "t", "c", "h", "(">>
TextStartsWith == <<"s", "t", "a", "r", "t", "s", "w", "i", "t", "h">>
TextEndsWith == <<"e", "n", "d", "s", "w", "i", "t", "h">>

StartsWith(s, prefix) == Len(s) >= Len(prefix) /\ SubSeq(s, 1, Len(prefix)) = prefix
EndsWith(s, suffix) ==
    Len(s) >= Len(suffix) /\ SubSeq(s, Len(s) - Len(suffix) + 1, Len(s)) = suffix

\* the string literal of a string: quotes around it, every quote inside doubled
Literal(chars) ==
    <<"'">> \o Concat([i \in 1..Len(chars) |->
                          IF chars[i] = "'" THEN <<"'", "'">> ELSE <<chars[i]>>]) \o <<"'">>

\* the node is { <key>: mapping } and nothing else
IsSingleField(node, key) == Len(node.entries) = 1 /\ node.entries[1][1] = key

\* what the claim says a contains entry renders as
ExpectedIsMatch(field, value) ==
    TextIsMatchOpen \o Literal(value.chars) \o <<",", " ", "'">> \o field \o <<"'", ")">>

\* C11: a contains entry (field, value) is rendered as
\* search.ismatch(<formatted value>, '<field>'), never as a contains(...) call,
\* both by translateStringOperation and in the text of a node with a contains field.
C11_ContainsIsSearchIsMatch ==
    /\ (StringOperationDone /\ arg.functionName = TextContains) =>
          /\ ret.kind = "array" /\ Len(ret.items) = Len(arg.operation)
          /\ \A i \in 1..Len(arg.operation) :
                /\ ret.items[i] = ExpectedIsMatch(arg.operation[i][1], arg.operation[i][2])
                /\ ~StartsWith(ret.items[i], TextContains)
    /\ (TranslateFilterDone /\ IsSingleField(arg, "contains")) =>
          ret = Returned(Join([i \in 1..Len(arg.entries[1][2]) |->
                                  ExpectedIsMatch(arg.entries[1][2][i][1],
                                                  arg.entries[1][2][i][2])], TextAnd))

\* a node with a contains field of two entries has been rendered
C11_Witness ==
    /\ TranslateFilterDone /\ IsSingleField(arg, "contains")
    /\ Len(arg.entries[1][2]) = 2
    /\ ret.kind = "string" /\ StartsWith(ret.chars, TextIsMatchOpen)

\* what the claim says a startsWith / endsWith entry renders as
ExpectedFunction(name, field, value) ==
    name \o <<"(">> \o field \o <<",", " ">> \o Literal(value.chars) \o <<")">>

\* C12: a startsWith (endsWith) entry (field, value) is rendered as
\* startswith(<field>, <value as a string literal>) (endswith(...)), the function
\* name in lower case and the field name without quotes.
C12_StartsEndsWithAreFunctionCalls ==
    /\ (StringOperationDone /\ arg.functionName # TextContains) =>
          /\ ret.kind = "array" /\ Len(ret.items) = Len(arg.operation)
          /\ arg.functionName \in {TextStartsWith, TextEndsWith}
          /\ \A i \in 1..Len(arg.operation) :
                ret.items[i] = ExpectedFunction(arg.functionName, arg.operation[i][1],
                                                arg.operation[i][2])
    /\ \A key \in {"startsWith", "endsWith"} :
          (TranslateFilterDone /\ IsSingleField(arg, key)) =>
              ret = Returned(Join([i \in 1..Len(arg.entries[1][2]) |->
                                      ExpectedFunction(IF key = "startsWith" THEN TextStartsWith
                                                       ELSE TextEndsWith,
                                                       arg.entries[1][2][i][1],
                                                       arg.entries[1][2][i][2])], TextAnd))

\* a node with a startsWith field whose value holds a quote has been rendered
C12_Witness ==
    /\ TranslateFilterDone /\ IsSingleField(arg, "startsWith")
    /\ Len(arg.entries[1][2]) >= 1
    /\ \E i \in 1..Len(arg.entries[1][2][1][2].chars) : arg.entries[1][2][1][2].chars[i] = "'"
    /\ ret.kind = "string" /\ StartsWith(ret.chars, TextStartsWith \o <<"(">>)

\* the name holds a '/', a space or a '-'
IsSpecialName(field) == \E i \in 1..Len(field) : field[i] \in {"/", " ", "-"}

\* C13: a field name appears in the text as it was given: a comparison condition
\* begins with the name followed by a space, a startswith / endswith call has the
\* name right after the opening parenthesis followed by a comma, whatever
\* characters the name holds; only search.ismatch has the name between quotes.
C13_FieldNamesPassThrough ==
    /\ (pc = "done" /\ op = "translateComparison" /\ ret.kind = "array") =>
          \A i \in 1..Len(arg.comparison) :
              StartsWith(ret.items[i], arg.comparison[i][1] \o <<" ">> \o arg.operator)
    /\ (StringOperationDone /\ arg.functionName # TextContains) =>
          \A i \in 1..Len(arg.operation) :
              StartsWith(ret.items[i],
                         arg.functionName \o <<"(">> \o arg.operation[i][1] \o <<",", " ">>)
    /\ (StringOperationDone /\ arg.functionName = TextContains) =>
          \A i \in 1..Len(arg.operation) :
              EndsWith(ret.items[i], <<",", " ", "'">> \o arg.operation[i][1] \o <<"'", ")">>)

\* conditions have been rendered for a name with a '/', a name with a space and a
\* name with a '-'
C13_Witness ==
    /\ pc = "done" /\ op = "translateComparison" /\ ret.kind = "array"
    /\ Len(arg.comparison) = 2
    /\ \E i, j \in 1..2 :
          /\ \E k \in 1..Len(arg.comparison[i][1]) : arg.comparison[i][1][k] = "/"
          /\ \E k \in 1..Len(arg.comparison[j][1]) : arg.comparison[j][1][k] \in {" ", "-"}

\* what the claim says an any / all field renders as
ExpectedQuantifier(node, key) ==
    IF Has(node, key)
    THEN Get(node, key).collection \o <<"/">> \o
         (IF key = "any" THEN <<"a", "n", "y">> ELSE <<"a", "l", "l">>) \o <<"(">>
         \o Get(node, key).predicate \o <<")">>
    ELSE <<>>

\* C14: an any (all) field is rendered as <collection>/any(<predicate>)
\* (<collection>/all(<predicate>)) with the predicate as it was given, whatever
\* it holds, also when it is empty; the any and all conditions are the last of
\* the node's text.
C14_QuantifierPredicateVerbatim ==
    (TranslateFilterDone /\ ret.kind = "string" /\ (Has(arg, "any") \/ Has(arg, "all"))) =>
        ret.chars =
          Join(NonEmpty(<<translateFilter(Without(arg, {"any", "all"})).chars,
                          ExpectedQuantifier(arg, "any"),
                          ExpectedQuantifier(arg, "all")>>), TextAnd)

\* an any field with an empty predicate and an all field with a predicate that is
\* no lambda have been rendered
C14_Witness ==
    /\ TranslateFilterDone /\ ret.kind = "string"
    /\ Has(arg, "any") /\ Has(arg, "all")
    /\ Get(arg, "any").predicate = <<>>
    /\ Get(arg, "all").predicate = <<")", " ", "o", "r", " ", "(">>
    /\ Len(ret.chars) > 0

-----------------------------------------------------------------------------
(* Errors *)

\* C15: translate completes for every filter expression: it returns a string or
\* undefined and never throws.
C15_TranslateNeverThrows ==
    TranslateDone => ret.kind \in {"string", "undefined"}

-----------------------------------------------------------------------------
(* AzureAISearchVector: errors *)

NoCause == [kind |-> "none"]

\* an error thrown by the service client: statusCode 0 stands for no statusCode
RestError(statusCode, message) ==
    [kind |-> "RestError", statusCode |-> statusCode, message |-> message]

\* new Error(message)
PlainError(message) == [kind |-> "Error", message |-> message]

\* new MastraError({ id, domain: ErrorDomain.STORAGE, category, details }, cause)
MastraError(id, category, details, cause) ==
    [kind |-> "MastraError", id |-> id, domain |-> "STORAGE", category |-> category,
     details |-> details, cause |-> cause]

\* String.prototype.includes
Includes(s, sub) ==
    \E i \in 1..(Len(s) - Len(sub) + 1) : SubSeq(s, i, i + Len(sub) - 1) = sub

M_alreadyExists == <<"a", "l", "r", "e", "a", "d", "y", " ", "e", "x", "i", "s", "t", "s">>
M_indexAlreadyExists == <<"I", "n", "d", "e", "x", " ">> \o M_alreadyExists
M_conflict == <<"C", "o", "n", "f", "l", "i", "c", "t">>
M_notFound == <<"N", "o", "t", " ", "f", "o", "u", "n", "d">>
M_unavailable == <<"U", "n", "a", "v", "a", "i", "l", "a", "b", "l", "e">>

\* what the service answers when the index to create exists already
ConflictErrors ==
    {RestError(409, M_indexAlreadyExists), RestError(409, M_conflict),
     RestError(0, M_indexAlreadyExists)}
NotFoundError == RestError(404, M_notFound)
\* a failure that has nothing to do with the request
UnavailableError == RestError(503, M_unavailable)

\* completions of a call to the service, and of an adapter operation
Ok(value) == [ok |-> TRUE, value |-> value]
Fail(error) == [ok |-> FALSE, error |-> error]
Resolved(value) == [kind |-> "resolved", value |-> value]
Rejected(error) == [kind |-> "rejected", error |-> error]
Void == [t |-> "undefined"]

-----------------------------------------------------------------------------
(* The search service: indexes *)

IndexNames == {"products", "memory"}
\* the order the service lists them in
IndexOrder == <<"memory", "products">>

EdmVector == "Collection(Edm.Single)"
EdmString == "Edm.String"

\* a field of an index schema; dimensions 0 stands for no such attribute
Field(name, type, dimensions, vectorSearchDimensions) ==
    [name |-> name, type |-> type, dimensions |-> dimensions,
     vectorSearchDimensions |-> vectorSearchDimensions]

NoIndex == [exists |-> FALSE]
Index(fields, metric, docs) ==
    [exists |-> TRUE, fields |-> fields, metric |-> metric, docs |-> docs]

\* indexClient.createIndex: 409 when the index exists, else created or unavailable
SvcCreateIndex(st, definition) ==
    IF st[definition.name].exists
    THEN {<<Fail(e), st>> : e \in ConflictErrors \cup {UnavailableError}}
    ELSE {<<Ok(Void), [st EXCEPT ![definition.name] =
                          Index(definition.fields, definition.metric, <<>>)]>>,
          <<Fail(UnavailableError), st>>}

\* indexClient.listIndexes, iterated to the end
SvcListIndexes(st) ==
    {<<Ok(SelectSeq(IndexOrder, LAMBDA n : st[n].exists)), st>>,
     <<Fail(UnavailableError), st>>}

\* indexClient.getIndex
SvcGetIndex(st, name) ==
    IF st[name].exists
    THEN {<<Ok(st[name]), st>>, <<Fail(UnavailableError), st>>}
    ELSE {<<Fail(NotFoundError), st>>, <<Fail(UnavailableError), st>>}

\* indexClient.deleteIndex
SvcDeleteIndex(st, name) ==
    IF st[name].exists
    THEN {<<Ok(Void), [st EXCEPT ![name] = NoIndex]>>, <<Fail(UnavailableError), st>>}
    ELSE {<<Fail(NotFoundError), st>>, <<Fail(UnavailableError), st>>}

\* searchClient.getDocumentsCount
SvcGetDocumentsCount(st, name) ==
    IF st[name].exists
    THEN {<<Ok(Len(st[name].docs)), st>>, <<Fail(UnavailableError), st>>}
    ELSE {<<Fail(NotFoundError), st>>, <<Fail(UnavailableError), st>>}

-----------------------------------------------------------------------------
(* AzureAISearchVector: tasks *)

Callers == {"c1"}

\* a caller with no operation in flight, having invoked n operations so far
IdleTask(n) ==
    [op |-> "none", params |-> Void, pc |-> "idle", locals |-> Void,
     calls |-> <<>>, result |-> Pending, ops |-> n]

\* the operation has been invoked and waits at `pc` for the service
Awaiting(task, operation, params, pc_, locals) ==
    [op |-> operation, params |-> params, pc |-> pc_, locals |-> locals,
     calls |-> <<>>, result |-> Pending, ops |-> task.ops]

\* the operation has been invoked and has settled without calling the service
SettledAtOnce(task, operation, params, result) ==
    [op |-> operation, params |-> params, pc |-> "done", locals |-> Void,
     calls |-> <<>>, result |-> result, ops |-> task.ops]

\* the entry of a task's log for one call to the service
Call(api, request, response) ==
    [api |-> api, request |-> request, ok |-> response.ok, response |-> response]

\* the service has answered the call the task waits for; the task goes on to
\* wait at `pc` with `locals`
GoOn(task, call, pc_, locals) ==
    [task EXCEPT !.calls = Append(@, call), !.pc = pc_, !.locals = locals]

\* the service has answered the call the task waits for; the operation settles
Settle(task, call, result) ==
    [task EXCEPT !.calls = Append(@, call), !.pc = "done", !.result = result]

CanInvoke(c) == tasks[c].pc = "idle" /\ tasks[c].ops < MaxOps

-----------------------------------------------------------------------------
(* AzureAISearchVector.createIndex *)

\* METRIC_MAPPING
MetricMapping(metric) ==
    CASE metric = "cosine" -> "cosine"
      [] metric = "euclidean" -> "euclidean"
      [] metric = "dotproduct" -> "dotProduct"

\* Number.isInteger(dimension)
IsInteger(dimension) == dimension.fin /\ dimension.mant % Pow10(dimension.scale) = 0

\* the test as it would be without Number.isInteger
IsInvalidDimensionNotPositive(dimension) ==
    \/ ~dimension.fin
    \/ dimension.neg
    \/ dimension.mant = 0

\* `!Number.isInteger(dimension) || dimension <= 0`
IsInvalidDimension(dimension) ==
    \/ ~IsInteger(dimension)
    \/ dimension.neg
    \/ dimension.mant = 0

\* the value of an integer dimension
DimensionOf(dimension) == dimension.mant \div Pow10(dimension.scale)

\* destructuring defaults: `metric = 'cosine'`, `vectorField = 'vector'`
WithDefault(value, default) == IF value = "undefined" THEN default ELSE value

\* defaultFields
DefaultFields(vectorField, dimension) ==
    <<Field("id", EdmString, 0, 0),
      Field(vectorField, EdmVector, 0, dimension),
      Field("metadata", EdmString, 0, 0),
      Field("content", EdmString, 0, 0)>>

\* allFields: the default fields and the additional fields whose name is new
AllFields(defaultFields, additionalFields) ==
    defaultFields \o
    SelectSeq(additionalFields,
              LAMBDA f : \A i \in 1..Len(defaultFields) : defaultFields[i].name # f.name)

\* indexDefinition
IndexDefinition(params) ==
    [name |-> params.indexName,
     fields |-> AllFields(DefaultFields(WithDefault(params.vectorField, "vector"),
                                        DimensionOf(params.dimension)),
                          params.additionalFields),
     metric |-> MetricMapping(WithDefault(params.metric, "cosine"))]

InvalidDimensionError(params) ==
    [kind |-> "MastraError", id |-> "STORAGE_AZURE_AI_SEARCH_CREATE_INDEX_INVALID_DIMENSION",
     domain |-> "STORAGE", category |-> "USER",
     text |-> "Dimension must be a positive integer",
     details |-> [indexName |-> params.indexName, dimension |-> params.dimension],
     cause |-> NoCause]

CreateIndexFailed(params, error) ==
    MastraError("STORAGE_AZURE_AI_SEARCH_CREATE_INDEX_FAILED", "THIRD_PARTY",
                [indexName |-> params.indexName, dimension |-> params.dimension,
                 metric |-> WithDefault(params.metric, "cosine")], error)

\* the test as it would be with the status code alone
IsAlreadyExistsByStatus(error) == error.statusCode = 409

\* `error?.statusCode === 409 || error?.message?.includes('already exists')`
IsAlreadyExists(error) ==
    error.statusCode = 409 \/ Includes(error.message, M_alreadyExists)

\* the end of createIndex, given the service's answer
CreateIndexResult(params, response) ==
    IF response.ok THEN Resolved(Void)
    ELSE IF IsAlreadyExists(response.error) THEN Resolved(Void)
    ELSE Rejected(CreateIndexFailed(params, response.error))

-----------------------------------------------------------------------------
(* AzureAISearchVector.listIndexes, describeIndex, deleteIndex *)

ListIndexesFailed(error) ==
    MastraError("STORAGE_AZURE_AI_SEARCH_LIST_INDEXES_FAILED", "THIRD_PARTY", Void, error)

ListIndexesResult(response) ==
    IF response.ok THEN Resolved(response.value)
    ELSE Rejected(ListIndexesFailed(response.error))

\* Array.prototype.find: the position of the first element that satisfies P, or 0
Find(seq, P(_)) ==
    IF \E i \in 1..Len(seq) : P(seq[i])
    THEN CHOOSE i \in 1..Len(seq) : P(seq[i]) /\ \A j \in 1..(i - 1) : ~P(seq[j])
    ELSE 0

\* `field.dimensions || field.vectorSearchDimensions`
FieldDimensions(field) ==
    IF field.dimensions # 0 THEN field.dimensions ELSE field.vectorSearchDimensions

\* `field.type === 'Collection(Edm.Single)' && (field.dimensions || field.vectorSearchDimensions)`
IsVectorField(field) == field.type = EdmVector /\ FieldDimensions(field) # 0

\* the reverse lookup of the index's metric in METRIC_MAPPING, 'cosine' if none
MetricOf(index) ==
    CASE index.metric = "euclidean" -> "euclidean"
      [] index.metric = "dotProduct" -> "dotproduct"
      [] OTHER -> "cosine"

IndexStats(dimension, count, metric) ==
    [dimension |-> dimension, count |-> count, metric |-> metric]

\* the body of describeIndex's try block after both answers have arrived
DescribeIndexStats(index, count) ==
    LET vectorField == Find(index.fields, IsVectorField)
        defaultVectorField == Find(index.fields, LAMBDA f : f.name = "vector")
    IN IF vectorField # 0
       THEN Ok(IndexStats(FieldDimensions(index.fields[vectorField]), count, MetricOf(index)))
       ELSE IF defaultVectorField # 0 /\ FieldDimensions(index.fields[defaultVectorField]) # 0
       THEN Ok(IndexStats(FieldDimensions(index.fields[defaultVectorField]), count, "cosine"))
       ELSE Fail(PlainError("Vector field not found or missing dimensions"))

DescribeIndexFailed(indexName, error) ==
    MastraError("STORAGE_AZURE_AI_SEARCH_DESCRIBE_INDEX_FAILED", "THIRD_PARTY",
                [indexName |-> indexName], error)

\* describeIndex once getDocumentsCount has answered: its value or its error
DescribeIndexResult(indexName, index, response) ==
    IF ~response.ok THEN Fail(DescribeIndexFailed(indexName, response.error))
    ELSE IF DescribeIndexStats(index, response.value).ok
    THEN DescribeIndexStats(index, response.value)
    ELSE Fail(DescribeIndexFailed(indexName, DescribeIndexStats(index, response.value).error))

\* an answer of describeIndex as the completion of the operation
Completion(answer) == IF answer.ok THEN Resolved(answer.value) ELSE Rejected(answer.error)

DeleteIndexFailed(indexName, error) ==
    MastraError("STORAGE_AZURE_AI_SEARCH_DELETE_INDEX_FAILED", "THIRD_PARTY",
                [indexName |-> indexName], error)

\* deleteIndex as it would be if it took a 404 for success, as deleteVector does
DeleteIndexResultIgnoringNotFound(indexName, response) ==
    IF response.ok THEN Resolved(Void)
    ELSE IF response.error.statusCode = 404 THEN Resolved(Void)
    ELSE Rejected(DeleteIndexFailed(indexName, response.error))

DeleteIndexResult(indexName, response) ==
    IF response.ok THEN Resolved(Void)
    ELSE Rejected(DeleteIndexFailed(indexName, response.error))

-----------------------------------------------------------------------------
(* Documents and their metadata *)

\* number[]
Vec(items) == [t |-> "vector", items |-> items]

\* a metadata object: <<key, value>> entries with string values, in insertion order
Meta(entries) == [t |-> "object", entries |-> entries]

\* the characters of a JSON string literal: '"' and '\' are escaped
JSONQuote(chars) ==
    <<"\"">> \o Concat([i \in 1..Len(chars) |->
                          IF chars[i] \in {"\"", "\\"} THEN <<"\\", chars[i]>>
                          ELSE <<chars[i]>>]) \o <<"\"">>

\* JSON.stringify of a metadata object
JSONStringify(meta) ==
    <<"{">> \o Join([i \in 1..Len(meta.entries) |->
                        JSONQuote(meta.entries[i][1]) \o <<":">>
                        \o JSONQuote(meta.entries[i][2])], <<",">>) \o <<"}">>

\* the end of the JSON string literal that starts at position i of s (the
\* position of its closing quote), or 0 when it does not end
RECURSIVE JSONStringEnd(_, _)
JSONStringEnd(s, i) ==
    IF i > Len(s) THEN 0
    ELSE IF s[i] = "\"" THEN i
    ELSE IF s[i] = "\\" THEN (IF i + 1 > Len(s) THEN 0 ELSE JSONStringEnd(s, i + 2))
    ELSE JSONStringEnd(s, i + 1)

\* the characters between the quotes, with the escapes undone
RECURSIVE JSONUnquote(_)
JSONUnquote(body) ==
    IF body = <<>> THEN <<>>
    ELSE IF Head(body) = "\\" THEN <<body[2]>> \o JSONUnquote(SubSeq(body, 3, Len(body)))
    ELSE <<Head(body)>> \o JSONUnquote(Tail(body))

\* the members of a JSON object of strings from position i of s on: the entries
\* read, or a SyntaxError
RECURSIVE JSONMembers(_, _, _)
JSONMembers(s, i, entries) ==
    LET keyEnd == IF i <= Len(s) /\ s[i] = "\"" THEN JSONStringEnd(s, i + 1) ELSE 0
        valueStart == keyEnd + 2
        valueEnd == IF keyEnd # 0 /\ valueStart <= Len(s) /\ s[keyEnd + 1] = ":"
                       /\ s[valueStart] = "\""
                    THEN JSONStringEnd(s, valueStart + 1) ELSE 0
        read == Append(entries, <<JSONUnquote(SubSeq(s, i + 1, keyEnd - 1)),
                                  JSONUnquote(SubSeq(s, valueStart + 1, valueEnd - 1))>>)
    IN IF valueEnd = 0 \/ valueEnd = Len(s) THEN Fail("SyntaxError")
       ELSE IF s[valueEnd + 1] = "}" /\ valueEnd + 1 = Len(s) THEN Ok(Meta(read))
       ELSE IF s[valueEnd + 1] = "," THEN JSONMembers(s, valueEnd + 2, read)
       ELSE Fail("SyntaxError")

\* JSON.parse of the text of a metadata object
JSONParse(s) ==
    IF Len(s) < 2 \/ s[1] # "{" THEN Fail("SyntaxError")
    ELSE IF s = <<"{", "}">> THEN Ok(Meta(<<>>))
    ELSE JSONMembers(s, 2, <<>>)

\* metadata.content, or undefined
MetaContent(meta) ==
    LET i == Find(meta.entries, LAMBDA e : e[1] = <<"c", "o", "n", "t", "e", "n", "t">>)
    IN IF i = 0 THEN Void ELSE StrVal(meta.entries[i][2])

\* `x || ''` for a string or undefined
OrEmpty(value) == IF value.t = "string" THEN value.chars ELSE <<>>

\* a document: the vector is kept under the field name it was written with
Document(id, vectorField, vector, metadata, content) ==
    [t |-> "document", id |-> id, vectorField |-> vectorField, vector |-> vector,
     metadata |-> metadata, content |-> content]

\* document[fieldName] for the vector field: undefined under any other name
VectorUnder(doc, fieldName) == IF doc.vectorField = fieldName THEN doc.vector ELSE Void

-----------------------------------------------------------------------------
(* The search service: documents *)

M_badRequest == <<"I", "n", "v", "a", "l", "i", "d", " ", "e", "x", "p", "r", "e", "s", "s", "i", "o", "n">>
M_rejected == <<"r", "e", "j", "e", "c", "t", "e", "d">>
BadRequestError == RestError(400, M_badRequest)

\* the position of the document with this key, or 0
DocAt(docs, id) == Find(docs, LAMBDA d : d.id = id)

\* the documents after one document has been uploaded: it replaces the document
\* that has its key, or is added
Put(docs, doc) ==
    IF DocAt(docs, doc.id) # 0 THEN [docs EXCEPT ![DocAt(docs, doc.id)] = doc]
    ELSE Append(docs, doc)

\* what the service does with one document of a batch: "stored", or failed with
\* or without a message
Fates == {"stored", "failed", "failed, no message"}

RECURSIVE PutStored(_, _, _, _)
PutStored(docs, documents, fates, i) ==
    IF i > Len(documents) THEN docs
    ELSE PutStored(IF fates[i] = "stored" THEN Put(docs, documents[i]) ELSE docs,
                   documents, fates, i + 1)

\* the IndexingResult of one document; errorMessage <<>> stands for none
IndexingResult(doc, fate) ==
    [key |-> doc.id, succeeded |-> fate = "stored",
     errorMessage |-> IF fate = "failed" THEN M_rejected ELSE <<>>]

\* searchClient.uploadDocuments: every document is stored or fails on its own
SvcUploadDocuments(st, name, documents) ==
    IF ~st[name].exists THEN {<<Fail(NotFoundError), st>>, <<Fail(UnavailableError), st>>}
    ELSE {<<Ok([results |-> [i \in 1..Len(documents) |->
                                IndexingResult(documents[i], fates[i])]]),
            [st EXCEPT ![name].docs = PutStored(@, documents, fates, 1)]>> :
             fates \in [1..Len(documents) -> Fates]}
         \cup {<<Fail(UnavailableError), st>>}

\* the document as the service returns it: with its vector, or without it when
\* the vector field is not retrievable
Retrieved(doc) == {doc, [doc EXCEPT !.vector = Void]}

\* searchClient.getDocument: a missing document is answered with 404, or with
\* no document
SvcGetDocument(st, name, id) ==
    IF ~st[name].exists THEN {<<Fail(NotFoundError), st>>, <<Fail(UnavailableError), st>>}
    ELSE IF DocAt(st[name].docs, id) = 0
    THEN {<<Fail(NotFoundError), st>>, <<Ok(NullVal), st>>, <<Fail(UnavailableError), st>>}
    ELSE {<<Ok(d), st>> : d \in Retrieved(st[name].docs[DocAt(st[name].docs, id)])}
         \cup {<<Fail(UnavailableError), st>>}

\* the stored document after a merge: the fields that are given replace the
\* stored ones, an undefined vector leaves the stored vector
Merged(old, doc) ==
    IF doc.vector = Void THEN [doc EXCEPT !.vector = old.vector, !.vectorField = old.vectorField]
    ELSE doc

\* searchClient.mergeDocuments of one document: a missing document is answered
\* with 404 or with a result that has not succeeded
SvcMergeDocuments(st, name, doc) ==
    IF ~st[name].exists THEN {<<Fail(NotFoundError), st>>, <<Fail(UnavailableError), st>>}
    ELSE IF DocAt(st[name].docs, doc.id) = 0
    THEN {<<Fail(NotFoundError), st>>,
          <<Ok([results |-> <<IndexingResult(doc, "failed")>>]), st>>,
          <<Fail(UnavailableError), st>>}
    ELSE {<<Ok([results |-> <<IndexingResult(doc, "stored")>>]),
            [st EXCEPT ![name].docs[DocAt(st[name].docs, doc.id)] = Merged(@, doc)]>>,
          <<Fail(UnavailableError), st>>}

\* searchClient.deleteDocuments of one key: a missing document is answered with
\* success, with a result that has not succeeded, or with 404
SvcDeleteDocuments(st, name, id) ==
    IF ~st[name].exists THEN {<<Fail(NotFoundError), st>>, <<Fail(UnavailableError), st>>}
    ELSE IF DocAt(st[name].docs, id) = 0
    THEN {<<Ok([results |-> <<[key |-> id, succeeded |-> ok, errorMessage |-> <<>>]>>]), st>> :
             ok \in BOOLEAN}
         \cup {<<Fail(NotFoundError), st>>, <<Fail(UnavailableError), st>>}
    ELSE {<<Ok([results |-> <<[key |-> id, succeeded |-> TRUE, errorMessage |-> <<>>]>>]),
            [st EXCEPT ![name].docs = SelectSeq(@, LAMBDA d : d.id # id)]>>,
          <<Fail(UnavailableError), st>>}

\* what the service adds to a result of a semantic search; 0 and <<>> stand for
\* nothing
SemanticExtras ==
    {[rerankerScore |-> 0, captions |-> <<>>, highlights |-> <<>>],
     [rerankerScore |-> 2, captions |-> <<"caption">>, highlights |-> <<"highlight">>]}

\* searchClient.search, iterated to the end: the first `top` documents or none of
\* them (which documents match the filter is the service's business), each
\* with a score; a filter the service cannot parse is answered with 400
SvcSearch(st, name, request) ==
    IF ~st[name].exists THEN {<<Fail(NotFoundError), st>>, <<Fail(UnavailableError), st>>}
    ELSE {<<Ok([i \in 1..n |-> [document |-> st[name].docs[i], score |-> score,
                                rerankerScore |-> x.rerankerScore, captions |-> x.captions,
                                highlights |-> x.highlights]]), st>> :
             n \in {0, IF request.top < Len(st[name].docs) THEN request.top
                       ELSE Len(st[name].docs)},
             score \in {0, 1},
             x \in IF request.queryType = "semantic" THEN SemanticExtras
                   ELSE {[rerankerScore |-> 0, captions |-> <<>>, highlights |-> <<>>]}}
         \cup {<<Fail(BadRequestError), st>>, <<Fail(UnavailableError), st>>}

-----------------------------------------------------------------------------
(* AzureAISearchVector.getVectorFieldName, validateVectorDimensions, upsert *)

\* getVectorFieldName as it would be without the look at the index
getVectorFieldNameFixed(response) == "vector"

\* getVectorFieldName, given the answer of getIndex: the name of the first vector
\* field, and 'vector' when there is none, when its name is empty or when
\* getIndex has failed
getVectorFieldName(response) ==
    IF ~response.ok THEN "vector"
    ELSE IF Find(response.value.fields, IsVectorField) = 0 THEN "vector"
    ELSE IF response.value.fields[Find(response.value.fields, IsVectorField)].name = ""
    THEN "vector"
    ELSE response.value.fields[Find(response.value.fields, IsVectorField)].name

\* new Error(`Vector at index ${i} has invalid dimension ...`)
DimensionError(i, actual, expected) ==
    [kind |-> "Error", message |-> "Vector has invalid dimension",
     index |-> i, actual |-> actual, expected |-> expected]

\* variant: only the first vector is checked
validateVectorDimensionsOfFirst(vectors, dimension) ==
    IF vectors = <<>> \/ Len(vectors[1].items) = dimension THEN Ok(Void)
    ELSE Fail(DimensionError(0, Len(vectors[1].items), dimension))

\* validateVectorDimensions: throws for the first vector whose length differs
validateVectorDimensions(vectors, dimension) ==
    LET bad == Find(vectors, LAMBDA v : Len(v.items) # dimension)
    IN IF bad = 0 THEN Ok(Void)
       ELSE Fail(DimensionError(bad - 1, Len(vectors[bad].items), dimension))

\* crypto.randomUUID() for the i-th vector of the n-th operation of caller c
RandomUUID(c, n, i) == "uuid-" \o c \o "-" \o ToString(n) \o "-" \o ToString(i)

\* the ids as they would be if upsert always generated them
VectorIdsAlwaysGenerated(params, c, n) ==
    [i \in 1..Len(params.vectors) |-> RandomUUID(c, n, i)]

\* `ids || vectors.map(() => crypto.randomUUID())`
VectorIds(params, c, n) ==
    IF params.ids.t = "undefined"
    THEN [i \in 1..Len(params.vectors) |-> RandomUUID(c, n, i)]
    ELSE params.ids.items

\* `metadata[i] || {}`
MetadataAt(metadata, i) == IF i <= Len(metadata) THEN metadata[i] ELSE Meta(<<>>)

\* an element of an array of strings, 'undefined' past its end
IdAt(ids, i) == IF i <= Len(ids) THEN ids[i] ELSE "undefined"

\* the documents upsert uploads
UpsertDocuments(params, vectorIds, vectorFieldName) ==
    [i \in 1..Len(params.vectors) |->
        Document(IdAt(vectorIds, i), vectorFieldName, params.vectors[i],
                 JSONStringify(MetadataAt(params.metadata, i)),
                 OrEmpty(MetaContent(MetadataAt(params.metadata, i))))]

M_noErrorMessage == <<"N", "o", " ", "e", "r", "r", "o", "r", " ", "m", "e", "s", "s", "a", "g", "e">>

\* new Error(`${failures.length} of ${uploadResult.results.length} documents failed to upload`)
FailedToUpload(failed, total) ==
    [kind |-> "Error", message |-> "documents failed to upload",
     failed |-> failed, total |-> total]

\* uploadResult.results.filter(result => !result.succeeded)
Failures(results) == SelectSeq(results, LAMBDA r : ~r.succeeded)

UpsertPartialFailure(params, results) ==
    MastraError("STORAGE_AZURE_AI_SEARCH_UPSERT_PARTIAL_FAILURE", "THIRD_PARTY",
                [indexName |-> params.indexName,
                 totalDocuments |-> Len(results),
                 failedCount |-> Len(Failures(results)),
                 firstFailedKey |-> IF Failures(results)[1].key = "" THEN "unknown"
                                    ELSE Failures(results)[1].key,
                 firstFailedError |-> IF Failures(results)[1].errorMessage = <<>>
                                      THEN M_noErrorMessage
                                      ELSE Failures(results)[1].errorMessage],
                FailedToUpload(Len(Failures(results)), Len(results)))

UpsertFailed(params, error) ==
    MastraError("STORAGE_AZURE_AI_SEARCH_UPSERT_FAILED", "THIRD_PARTY",
                [indexName |-> params.indexName, vectorCount |-> Len(params.vectors)], error)

\* upsert as it would be without the validation of line 577
UpsertAfterDescribeUnvalidated(params, answer) ==
    IF ~answer.ok THEN Fail(UpsertFailed(params, answer.error))
    ELSE Ok(answer.value)

\* upsert after describeIndex has answered: the dimensions are validated, and
\* either the catch block rejects or the vector field is looked up next
UpsertAfterDescribe(params, answer) ==
    IF ~answer.ok THEN Fail(UpsertFailed(params, answer.error))
    ELSE IF ~validateVectorDimensions(params.vectors, answer.value.dimension).ok
    THEN Fail(UpsertFailed(params,
                           validateVectorDimensions(params.vectors,
                                                    answer.value.dimension).error))
    ELSE Ok(answer.value)

\* the end of upsert, given the answer of uploadDocuments
UpsertResult(params, vectorIds, response) ==
    IF ~response.ok THEN Rejected(UpsertFailed(params, response.error))
    ELSE IF Len(Failures(response.value.results)) > 0
    THEN Rejected(UpsertFailed(params, UpsertPartialFailure(params, response.value.results)))
    ELSE Resolved(vectorIds)

-----------------------------------------------------------------------------
(* AzureAISearchVector.query / advancedQuery *)

\* transformFilter: new AzureAISearchFilterTranslator().translate(filter)
transformFilter(filter) == translate(filter)

\* `topK = 10`; 0 stands for no topK given
TopK(params) == IF params.topK = 0 THEN 10 ELSE params.topK

\* the queryType of the search options
SearchQueryType(params) ==
    IF params.useSemanticSearch \/ params.queryType = "semantic" THEN "semantic"
    ELSE IF params.queryType = "full" THEN "full"
    ELSE "simple"

\* searchOptions as they would be if the translated filter were left out
SearchRequestUnfiltered(params, vectorFieldName, odataFilter) ==
    [vectorQueries |-> <<[kind |-> "vector", vector |-> params.queryVector,
                          kNearestNeighborsCount |-> TopK(params),
                          fields |-> <<vectorFieldName>>,
                          exhaustive |-> FALSE, weight |-> 1]>>,
     filterMode |-> "preFilter",
     filter |-> ReturnedUndefined,
     top |-> TopK(params),
     select |-> <<"id", "metadata", "content">>,
     queryType |-> SearchQueryType(params)]

\* searchOptions, with the primary vector query
SearchRequest(params, vectorFieldName, odataFilter) ==
    [vectorQueries |-> <<[kind |-> "vector", vector |-> params.queryVector,
                          kNearestNeighborsCount |-> TopK(params),
                          fields |-> <<vectorFieldName>>,
                          exhaustive |-> FALSE, weight |-> 1]>>,
     filterMode |-> "preFilter",
     filter |-> odataFilter,
     top |-> TopK(params),
     select |-> <<"id", "metadata", "content">>,
     queryType |-> SearchQueryType(params)]

QueryFailed(params, error) ==
    MastraError("STORAGE_AZURE_AI_SEARCH_QUERY_FAILED", "THIRD_PARTY",
                [indexName |-> params.indexName, topK |-> TopK(params)], error)

\* `result.document.metadata ? JSON.parse(result.document.metadata) : {}`
ParsedMetadata(document) ==
    IF document.metadata = <<>> THEN Ok(Meta(<<>>)) ELSE JSONParse(document.metadata)

\* one QueryResult as it would be if the document's vector were passed on
QueryResultWithVector(result) ==
    [id |-> result.document.id,
     score |-> result.score,
     metadata |-> ParsedMetadata(result.document).value,
     searchMetadata |-> [rerankerScore |-> result.rerankerScore,
                         captions |-> result.captions,
                         highlights |-> result.highlights],
     document |-> result.document.content,
     vector |-> result.document.vector]

\* one QueryResult; the @search.* entries the semantic fields add to the
\* metadata are kept next to it
QueryResult(result) ==
    [id |-> result.document.id,
     score |-> result.score,
     metadata |-> ParsedMetadata(result.document).value,
     searchMetadata |-> [rerankerScore |-> result.rerankerScore,
                         captions |-> result.captions,
                         highlights |-> result.highlights],
     document |-> result.document.content]

\* query after getVectorFieldName has answered: the filter is translated, and
\* either the catch block rejects or the search request is ready
QueryRequest(params, vectorFieldName) ==
    IF IsThrow(transformFilter(params.filter))
    THEN Fail(QueryFailed(params, PlainError(transformFilter(params.filter).error)))
    ELSE Ok(SearchRequest(params, vectorFieldName, transformFilter(params.filter)))

\* the end of query, given the answer of search
QueryResults(params, response) ==
    IF ~response.ok THEN Rejected(QueryFailed(params, response.error))
    ELSE IF \E i \in 1..Len(response.value) : ~ParsedMetadata(response.value[i].document).ok
    THEN Rejected(QueryFailed(params, PlainError("SyntaxError")))
    ELSE Resolved([i \in 1..Len(response.value) |-> QueryResult(response.value[i])])

-----------------------------------------------------------------------------
(* AzureAISearchVector.updateVector, deleteVector *)

UpdateVectorFailed(params, error) ==
    MastraError("STORAGE_AZURE_AI_SEARCH_UPDATE_VECTOR_FAILED", "THIRD_PARTY",
                [indexName |-> params.indexName, id |-> params.id], error)

\* `!update.vector && !update.metadata`
NoUpdates(update) == update.vector.t = "undefined" /\ update.metadata.t = "undefined"

\* updatedDoc as it would be if the parts left out were reset, as upsert
\* writes them
UpdatedDocReplacing(params, vectorFieldName, existingDoc) ==
    Document(params.id, vectorFieldName,
             IF params.update.vector.t # "undefined" THEN params.update.vector
             ELSE VectorUnder(existingDoc, vectorFieldName),
             JSONStringify(IF params.update.metadata.t # "undefined"
                           THEN params.update.metadata ELSE Meta(<<>>)),
             IF params.update.metadata.t # "undefined"
             THEN OrEmpty(MetaContent(params.update.metadata))
             ELSE <<>>)

\* updatedDoc as it would be if the vector were sent only when the update has one
UpdatedDocOfGivenVector(params, vectorFieldName, existingDoc) ==
    Document(params.id, vectorFieldName,
             params.update.vector,
             IF params.update.metadata.t # "undefined"
             THEN JSONStringify(params.update.metadata)
             ELSE existingDoc.metadata,
             IF params.update.metadata.t # "undefined"
                /\ OrEmpty(MetaContent(params.update.metadata)) # <<>>
             THEN OrEmpty(MetaContent(params.update.metadata))
             ELSE existingDoc.content)

\* updatedDoc
UpdatedDoc(params, vectorFieldName, existingDoc) ==
    Document(params.id, vectorFieldName,
             IF params.update.vector.t # "undefined" THEN params.update.vector
             ELSE VectorUnder(existingDoc, vectorFieldName),
             IF params.update.metadata.t # "undefined"
             THEN JSONStringify(params.update.metadata)
             ELSE existingDoc.metadata,
             IF params.update.metadata.t # "undefined"
                /\ OrEmpty(MetaContent(params.update.metadata)) # <<>>
             THEN OrEmpty(MetaContent(params.update.metadata))
             ELSE existingDoc.content)

\* updateVector once getDocument has answered: the catch block rejects, or the
\* existing document is there
UpdateExistingDoc(params, response) ==
    IF ~response.ok THEN Fail(UpdateVectorFailed(params, response.error))
    ELSE IF response.value.t = "null"
    THEN Fail(UpdateVectorFailed(params, PlainError("Document not found")))
    ELSE Ok(response.value)

\* updateVector once describeIndex has answered: validation of the new vector
UpdateAfterDescribe(params, answer) ==
    IF ~answer.ok THEN Fail(UpdateVectorFailed(params, answer.error))
    ELSE IF ~validateVectorDimensions(<<params.update.vector>>, answer.value.dimension).ok
    THEN Fail(UpdateVectorFailed(params,
                                 validateVectorDimensions(<<params.update.vector>>,
                                                          answer.value.dimension).error))
    ELSE Ok(answer.value)

\* the end of updateVector, given the answer of mergeDocuments
UpdateVectorResult(params, response) ==
    IF response.ok THEN Resolved(Void)
    ELSE Rejected(UpdateVectorFailed(params, response.error))

DeleteVectorFailed(params, error) ==
    MastraError("STORAGE_AZURE_AI_SEARCH_DELETE_VECTOR_FAILED", "THIRD_PARTY",
                [indexName |-> params.indexName, id |-> params.id], error)

\* deleteVector as it would be if it signaled every failure
DeleteVectorResultStrict(params, response) ==
    IF response.ok THEN Resolved(Void)
    ELSE Rejected(DeleteVectorFailed(params, response.error))

\* the end of deleteVector, given the answer of deleteDocuments: a 404 is no error
DeleteVectorResult(params, response) ==
    IF response.ok THEN Resolved(Void)
    ELSE IF response.error.statusCode = 404 THEN Resolved(Void)
    ELSE Rejected(DeleteVectorFailed(params, response.error))

-----------------------------------------------------------------------------
(* The adapter's inputs and the service's initial states *)

Keys == {"k1", "k2"}

V12 == Vec(<<1, 2>>)
V34 == Vec(<<3, 4>>)
V123 == Vec(<<1, 2, 3>>)

\* { content: 'c' } and { type: 't"' }
MetaContentC == Meta(<< <<(<<"c", "o", "n", "t", "e", "n", "t">>), (<<"c">>)>> >>)
MetaTypeT == Meta(<< <<(<<"t", "y", "p", "e">>), (<<"t", "\"">>)>> >>)

\* a document as upsert writes it, and one whose metadata is no JSON
DocK1 == Document("k1", "vector", V12, JSONStringify(MetaContentC), <<"c">>)
DocK2Broken == Document("k2", "vector", V34, <<"{", "x">>, <<>>)

\* an index as createIndex makes it; one whose vector field declares
\* `dimensions`; one with a vector field of another name; one without a vector
\* field; one whose 'vector' field is a half-precision collection
LegacyFields ==
    <<Field("id", EdmString, 0, 0), Field("vector", EdmVector, 2, 0),
      Field("content", EdmString, 0, 0), Field("metadata", EdmString, 0, 0)>>
HalfFields ==
    <<Field("id", EdmString, 0, 0), Field("vector", "Collection(Edm.Half)", 0, 2),
      Field("metadata", EdmString, 0, 0)>>
SampleIndexes ==
    {NoIndex,
     Index(DefaultFields("vector", 2), "cosine", <<>>),
     Index(DefaultFields("vector", 2), "cosine", <<DocK1>>),
     Index(DefaultFields("vector", 2), "euclidean", <<DocK1, DocK2Broken>>),
     Index(LegacyFields, "none", <<DocK1>>),
     Index(DefaultFields("embedding", 3), "dotProduct", <<>>),
     Index(<<Field("id", EdmString, 0, 0), Field("metadata", EdmString, 0, 0)>>, "none", <<>>),
     Index(HalfFields, "none", <<>>)}

InitialStores == {[n \in IndexNames |-> IF n = "products" THEN i ELSE NoIndex] : i \in SampleIndexes}

\* dimension: 2, 3, 0, -2, 2.5, NaN
Dimensions ==
    {NumVal(FALSE, 2, 0), NumVal(FALSE, 3, 0), NumVal(FALSE, 0, 0), NumVal(TRUE, 2, 0),
     NumVal(FALSE, 25, 1), NonFinite("NaN")}

\* the optional parameters of createIndex: all left out, or all given
CreateIndexOptions ==
    {[metric |-> "undefined", vectorField |-> "undefined", additionalFields |-> <<>>],
     [metric |-> "euclidean", vectorField |-> "undefined", additionalFields |-> <<>>],
     [metric |-> "dotproduct", vectorField |-> "embedding",
      additionalFields |-> <<Field("content", EdmString, 0, 0),
                             Field("tags", EdmString, 0, 0)>>]}

CreateIndexParams ==
    {[indexName |-> n, dimension |-> d, metric |-> o.metric, vectorField |-> o.vectorField,
      additionalFields |-> o.additionalFields] :
        n \in IndexNames, d \in Dimensions, o \in CreateIndexOptions}

IndexParams == {[indexName |-> n] : n \in IndexNames}

VectorLists == {<<>>, <<V12>>, <<V123>>, <<V12, V34>>, <<V12, V123>>}
MetadataLists == {<<>>, <<MetaContentC>>, <<MetaTypeT, MetaContentC>>}

\* ids: left out, one key per vector, or one key only
IdsFor(vectors) ==
    {Void, [t |-> "array", items |-> SubSeq(<<"k1", "k2">>, 1, Len(vectors))],
     [t |-> "array", items |-> SubSeq(<<"k2", "k1">>, 1, Len(vectors))],
     [t |-> "array", items |-> IF vectors = <<>> THEN <<>> ELSE <<"k1">>]}

UpsertParams ==
    UNION {{[indexName |-> n, vectors |-> v, metadata |-> m, ids |-> i] :
               n \in IndexNames, m \in MetadataLists, i \in IdsFor(v)} : v \in VectorLists}

\* { eq: { b: Invalid Date } }
InvalidDateNode == Obj(<< <<"eq", << <<(<<"b">>), InvalidDate>> >> >> >>)

QueryFilters == {UndefinedVal, EmptyNode, LeafA, LeafMulti, RawNode, InvalidDateNode}

\* topK and the kind of search: defaults, top 1 semantic, full
QueryOptions ==
    {[topK |-> 0, useSemanticSearch |-> FALSE, queryType |-> "undefined"],
     [topK |-> 1, useSemanticSearch |-> FALSE, queryType |-> "semantic"],
     [topK |-> 1, useSemanticSearch |-> TRUE, queryType |-> "full"],
     [topK |-> 0, useSemanticSearch |-> FALSE, queryType |-> "full"]}

QueryParams ==
    {[indexName |-> n, queryVector |-> V12, filter |-> f, topK |-> o.topK,
      includeVector |-> iv, useSemanticSearch |-> o.useSemanticSearch,
      queryType |-> o.queryType] :
        n \in IndexNames, f \in QueryFilters, o \in QueryOptions, iv \in BOOLEAN}

Updates ==
    {[vector |-> v, metadata |-> m] : v \in {Void, V34, V123}, m \in {Void, MetaContentC, MetaTypeT}}

UpdateVectorParams ==
    {[indexName |-> n, id |-> k, update |-> u] : n \in IndexNames, k \in Keys, u \in Updates}

DeleteVectorParams == {[indexName |-> n, id |-> k] : n \in IndexNames, k \in Keys}

-----------------------------------------------------------------------------
(* The adapter's operations, one step per call to the service *)

translatorVars == <<op, arg, ret, pc>>

\* the service is in one of its initial states and no operation is in flight;
\* the translator is used through query only
AdapterInit ==
    /\ store \in InitialStores
    /\ tasks = [c \in Callers |-> IdleTask(0)]
    /\ op = "none" /\ arg = UndefinedVal /\ ret = Pending /\ pc = "idle"

\* the caller has seen the operation settle
Return(c) ==
    /\ tasks[c].pc = "done"
    /\ tasks' = [tasks EXCEPT ![c] = IdleTask(@.ops + 1)]
    /\ UNCHANGED <<store, translatorVars>>

InvokeCreateIndex(c) ==
    /\ CanInvoke(c)
    /\ \E params \in CreateIndexParams :
          tasks' = [tasks EXCEPT ![c] =
                      IF IsInvalidDimension(params.dimension)
                      THEN SettledAtOnce(@, "createIndex", params,
                                         Rejected(InvalidDimensionError(params)))
                      ELSE Awaiting(@, "createIndex", params, "createIndex",
                                    [definition |-> IndexDefinition(params)])]
    /\ UNCHANGED <<store, translatorVars>>

CreateIndexCall(c) ==
    /\ tasks[c].op = "createIndex" /\ tasks[c].pc = "createIndex"
    /\ \E r \in SvcCreateIndex(store, tasks[c].locals.definition) :
          /\ store' = r[2]
          /\ tasks' = [tasks EXCEPT ![c] =
                         Settle(@, Call("createIndex", @.locals.definition, r[1]),
                                CreateIndexResult(@.params, r[1]))]
    /\ UNCHANGED translatorVars

InvokeListIndexes(c) ==
    /\ CanInvoke(c)
    /\ tasks' = [tasks EXCEPT ![c] = Awaiting(@, "listIndexes", Void, "listIndexes", Void)]
    /\ UNCHANGED <<store, translatorVars>>

ListIndexesCall(c) ==
    /\ tasks[c].op = "listIndexes" /\ tasks[c].pc = "listIndexes"
    /\ \E r \in SvcListIndexes(store) :
          /\ store' = r[2]
          /\ tasks' = [tasks EXCEPT ![c] =
                         Settle(@, Call("listIndexes", Void, r[1]), ListIndexesResult(r[1]))]
    /\ UNCHANGED translatorVars

InvokeDescribeIndex(c) ==
    /\ CanInvoke(c)
    /\ \E params \in IndexParams :
          tasks' = [tasks EXCEPT ![c] =
                      Awaiting(@, "describeIndex", params, "describeIndex.getIndex", Void)]
    /\ UNCHANGED <<store, translatorVars>>

\* describeIndex: getIndex answers
DescribeGetIndex(c) ==
    /\ tasks[c].op = "describeIndex" /\ tasks[c].pc = "describeIndex.getIndex"
    /\ \E r \in SvcGetIndex(store, tasks[c].params.indexName) :
          /\ store' = r[2]
          /\ tasks' = [tasks EXCEPT ![c] =
                         IF r[1].ok
                         THEN GoOn(@, Call("getIndex", @.params.indexName, r[1]),
                                   "describeIndex.getDocumentsCount", [index |-> r[1].value])
                         ELSE Settle(@, Call("getIndex", @.params.indexName, r[1]),
                                     Rejected(DescribeIndexFailed(@.params.indexName,
                                                                  r[1].error)))]
    /\ UNCHANGED translatorVars

\* describeIndex: getDocumentsCount answers
DescribeGetDocumentsCount(c) ==
    /\ tasks[c].op = "describeIndex" /\ tasks[c].pc = "describeIndex.getDocumentsCount"
    /\ \E r \in SvcGetDocumentsCount(store, tasks[c].params.indexName) :
          /\ store' = r[2]
          /\ tasks' = [tasks EXCEPT ![c] =
                         Settle(@, Call("getDocumentsCount", @.params.indexName, r[1]),
                                Completion(DescribeIndexResult(@.params.indexName,
                                                               @.locals.index, r[1])))]
    /\ UNCHANGED translatorVars

InvokeDeleteIndex(c) ==
    /\ CanInvoke(c)
    /\ \E params \in IndexParams :
          tasks' = [tasks EXCEPT ![c] = Awaiting(@, "deleteIndex", params, "deleteIndex", Void)]
    /\ UNCHANGED <<store, translatorVars>>

DeleteIndexCall(c) ==
    /\ tasks[c].op = "deleteIndex" /\ tasks[c].pc = "deleteIndex"
    /\ \E r \in SvcDeleteIndex(store, tasks[c].params.indexName) :
          /\ store' = r[2]
          /\ tasks' = [tasks EXCEPT ![c] =
                         Settle(@, Call("deleteIndex", @.params.indexName, r[1]),
                                DeleteIndexResult(@.params.indexName, r[1]))]
    /\ UNCHANGED translatorVars


InvokeUpsert(c) ==
    /\ CanInvoke(c)
    /\ \E params \in UpsertParams :
          tasks' = [tasks EXCEPT ![c] =
                      Awaiting(@, "upsert", params, "describeIndex.getIndex", Void)]
    /\ UNCHANGED <<store, translatorVars>>

\* upsert, in describeIndex: getIndex answers
UpsertDescribeGetIndex(c) ==
    /\ tasks[c].op = "upsert" /\ tasks[c].pc = "describeIndex.getIndex"
    /\ \E r \in SvcGetIndex(store, tasks[c].params.indexName) :
          /\ store' = r[2]
          /\ tasks' = [tasks EXCEPT ![c] =
                         IF r[1].ok
                         THEN GoOn(@, Call("getIndex", @.params.indexName, r[1]),
                                   "describeIndex.getDocumentsCount", [index |-> r[1].value])
                         ELSE Settle(@, Call("getIndex", @.params.indexName, r[1]),
                                     Rejected(UpsertFailed(@.params,
                                         DescribeIndexFailed(@.params.indexName,
                                                             r[1].error))))]
    /\ UNCHANGED translatorVars

\* upsert, in describeIndex: getDocumentsCount answers; then the dimensions are
\* validated and getVectorFieldName calls getIndex
UpsertDescribeGetDocumentsCount(c) ==
    /\ tasks[c].op = "upsert" /\ tasks[c].pc = "describeIndex.getDocumentsCount"
    /\ \E r \in SvcGetDocumentsCount(store, tasks[c].params.indexName) :
          /\ store' = r[2]
          /\ tasks' = [tasks EXCEPT ![c] =
                         IF UpsertAfterDescribe(@.params,
                                DescribeIndexResult(@.params.indexName, @.locals.index,
                                                    r[1])).ok
                         THEN GoOn(@, Call("getDocumentsCount", @.params.indexName, r[1]),
                                   "getVectorFieldName", Void)
                         ELSE Settle(@, Call("getDocumentsCount", @.params.indexName, r[1]),
                                     Rejected(UpsertAfterDescribe(@.params,
                                         DescribeIndexResult(@.params.indexName,
                                                             @.locals.index, r[1])).error))]
    /\ UNCHANGED translatorVars

\* upsert, in getVectorFieldName: getIndex answers; then the documents are built
\* and uploadDocuments is called
UpsertGetVectorFieldName(c) ==
    /\ tasks[c].op = "upsert" /\ tasks[c].pc = "getVectorFieldName"
    /\ \E r \in SvcGetIndex(store, tasks[c].params.indexName) :
          /\ store' = r[2]
          /\ tasks' = [tasks EXCEPT ![c] =
                         GoOn(@, Call("getIndex", @.params.indexName, r[1]),
                              "uploadDocuments",
                              [vectorIds |-> VectorIds(@.params, c, @.ops),
                               documents |-> UpsertDocuments(@.params,
                                                VectorIds(@.params, c, @.ops),
                                                getVectorFieldName(r[1]))])]
    /\ UNCHANGED translatorVars

\* upsert: uploadDocuments answers
UpsertUploadDocuments(c) ==
    /\ tasks[c].op = "upsert" /\ tasks[c].pc = "uploadDocuments"
    /\ \E r \in SvcUploadDocuments(store, tasks[c].params.indexName,
                                   tasks[c].locals.documents) :
          /\ store' = r[2]
          /\ tasks' = [tasks EXCEPT ![c] =
                         Settle(@, Call("uploadDocuments", @.locals.documents, r[1]),
                                UpsertResult(@.params, @.locals.vectorIds, r[1]))]
    /\ UNCHANGED translatorVars

InvokeQuery(c) ==
    /\ CanInvoke(c)
    /\ \E params \in QueryParams :
          tasks' = [tasks EXCEPT ![c] =
                      Awaiting(@, "query", params, "getVectorFieldName", Void)]
    /\ UNCHANGED <<store, translatorVars>>

\* query, in getVectorFieldName: getIndex answers; then the filter is translated
\* and search is called
QueryGetVectorFieldName(c) ==
    /\ tasks[c].op = "query" /\ tasks[c].pc = "getVectorFieldName"
    /\ \E r \in SvcGetIndex(store, tasks[c].params.indexName) :
          /\ store' = r[2]
          /\ tasks' = [tasks EXCEPT ![c] =
                         IF QueryRequest(@.params, getVectorFieldName(r[1])).ok
                         THEN GoOn(@, Call("getIndex", @.params.indexName, r[1]), "search",
                                   [request |-> QueryRequest(@.params,
                                                    getVectorFieldName(r[1])).value])
                         ELSE Settle(@, Call("getIndex", @.params.indexName, r[1]),
                                     Rejected(QueryRequest(@.params,
                                                  getVectorFieldName(r[1])).error))]
    /\ UNCHANGED translatorVars

\* query: search answers and its results are read to the end
QuerySearch(c) ==
    /\ tasks[c].op = "query" /\ tasks[c].pc = "search"
    /\ \E r \in SvcSearch(store, tasks[c].params.indexName, tasks[c].locals.request) :
          /\ store' = r[2]
          /\ tasks' = [tasks EXCEPT ![c] =
                         Settle(@, Call("search", @.locals.request, r[1]),
                                QueryResults(@.params, r[1]))]
    /\ UNCHANGED translatorVars

InvokeDeleteVector(c) ==
    /\ CanInvoke(c)
    /\ \E params \in DeleteVectorParams :
          tasks' = [tasks EXCEPT ![c] =
                      Awaiting(@, "deleteVector", params, "deleteDocuments", Void)]
    /\ UNCHANGED <<store, translatorVars>>

DeleteVectorCall(c) ==
    /\ tasks[c].op = "deleteVector" /\ tasks[c].pc = "deleteDocuments"
    /\ \E r \in SvcDeleteDocuments(store, tasks[c].params.indexName, tasks[c].params.id) :
          /\ store' = r[2]
          /\ tasks' = [tasks EXCEPT ![c] =
                         Settle(@, Call("deleteDocuments", @.params.id, r[1]),
                                DeleteVectorResult(@.params, r[1]))]
    /\ UNCHANGED translatorVars


\* updateVector: with no updates the catch block rejects before any call
InvokeUpdateVector(c) ==
    /\ CanInvoke(c)
    /\ \E params \in UpdateVectorParams :
          tasks' = [tasks EXCEPT ![c] =
                      IF NoUpdates(params.update)
                      THEN SettledAtOnce(@, "updateVector", params,
                               Rejected(UpdateVectorFailed(params,
                                            PlainError("No updates provided"))))
                      ELSE Awaiting(@, "updateVector", params, "getVectorFieldName", Void)]
    /\ UNCHANGED <<store, translatorVars>>

\* updateVector, in getVectorFieldName: getIndex answers; then getDocument is called
UpdateGetVectorFieldName(c) ==
    /\ tasks[c].op = "updateVector" /\ tasks[c].pc = "getVectorFieldName"
    /\ \E r \in SvcGetIndex(store, tasks[c].params.indexName) :
          /\ store' = r[2]
          /\ tasks' = [tasks EXCEPT ![c] =
                         GoOn(@, Call("getIndex", @.params.indexName, r[1]), "getDocument",
                              [vectorFieldName |-> getVectorFieldName(r[1])])]
    /\ UNCHANGED translatorVars

\* updateVector: getDocument answers; with a new vector describeIndex is called,
\* otherwise the updated document is built and mergeDocuments is called
UpdateGetDocument(c) ==
    /\ tasks[c].op = "updateVector" /\ tasks[c].pc = "getDocument"
    /\ \E r \in SvcGetDocument(store, tasks[c].params.indexName, tasks[c].params.id) :
          /\ store' = r[2]
          /\ tasks' = [tasks EXCEPT ![c] =
                         IF ~UpdateExistingDoc(@.params, r[1]).ok
                         THEN Settle(@, Call("getDocument", @.params.id, r[1]),
                                     Rejected(UpdateExistingDoc(@.params, r[1]).error))
                         ELSE IF @.params.update.vector.t # "undefined"
                         THEN GoOn(@, Call("getDocument", @.params.id, r[1]),
                                   "describeIndex.getIndex",
                                   [vectorFieldName |-> @.locals.vectorFieldName,
                                    existingDoc |-> r[1].value])
                         ELSE GoOn(@, Call("getDocument", @.params.id, r[1]),
                                   "mergeDocuments",
                                   [updatedDoc |-> UpdatedDoc(@.params,
                                                      @.locals.vectorFieldName,
                                                      r[1].value)])]
    /\ UNCHANGED translatorVars

\* updateVector, in describeIndex: getIndex answers
UpdateDescribeGetIndex(c) ==
    /\ tasks[c].op = "updateVector" /\ tasks[c].pc = "describeIndex.getIndex"
    /\ \E r \in SvcGetIndex(store, tasks[c].params.indexName) :
          /\ store' = r[2]
          /\ tasks' = [tasks EXCEPT ![c] =
                         IF r[1].ok
                         THEN GoOn(@, Call("getIndex", @.params.indexName, r[1]),
                                   "describeIndex.getDocumentsCount",
                                   [vectorFieldName |-> @.locals.vectorFieldName,
                                    existingDoc |-> @.locals.existingDoc,
                                    index |-> r[1].value])
                         ELSE Settle(@, Call("getIndex", @.params.indexName, r[1]),
                                     Rejected(UpdateVectorFailed(@.params,
                                         DescribeIndexFailed(@.params.indexName,
                                                             r[1].error))))]
    /\ UNCHANGED translatorVars

\* updateVector, in describeIndex: getDocumentsCount answers; then the new vector
\* is validated, the updated document is built and mergeDocuments is called
UpdateDescribeGetDocumentsCount(c) ==
    /\ tasks[c].op = "updateVector" /\ tasks[c].pc = "describeIndex.getDocumentsCount"
    /\ \E r \in SvcGetDocumentsCount(store, tasks[c].params.indexName) :
          /\ store' = r[2]
          /\ tasks' = [tasks EXCEPT ![c] =
                         IF UpdateAfterDescribe(@.params,
                                DescribeIndexResult(@.params.indexName, @.locals.index,
                                                    r[1])).ok
                         THEN GoOn(@, Call("getDocumentsCount", @.params.indexName, r[1]),
                                   "mergeDocuments",
                                   [updatedDoc |-> UpdatedDoc(@.params,
                                                      @.locals.vectorFieldName,
                                                      @.locals.existingDoc)])
                         ELSE Settle(@, Call("getDocumentsCount", @.params.indexName, r[1]),
                                     Rejected(UpdateAfterDescribe(@.params,
                                         DescribeIndexResult(@.params.indexName,
                                                             @.locals.index, r[1])).error))]
    /\ UNCHANGED translatorVars

\* updateVector: mergeDocuments answers
UpdateMergeDocuments(c) ==
    /\ tasks[c].op = "updateVector" /\ tasks[c].pc = "mergeDocuments"
    /\ \E r \in SvcMergeDocuments(store, tasks[c].params.indexName,
                                  tasks[c].locals.updatedDoc) :
          /\ store' = r[2]
          /\ tasks' = [tasks EXCEPT ![c] =
                         Settle(@, Call("mergeDocuments", @.locals.updatedDoc, r[1]),
                                UpdateVectorResult(@.params, r[1]))]
    /\ UNCHANGED translatorVars

AdapterNext ==
    \E c \in Callers :
        \/ InvokeCreateIndex(c)
        \/ CreateIndexCall(c)
        \/ InvokeListIndexes(c)
        \/ ListIndexesCall(c)
        \/ InvokeDescribeIndex(c)
        \/ DescribeGetIndex(c)
        \/ DescribeGetDocumentsCount(c)
        \/ InvokeDeleteIndex(c)
        \/ DeleteIndexCall(c)
        \/ InvokeUpsert(c)
        \/ UpsertDescribeGetIndex(c)
        \/ UpsertDescribeGetDocumentsCount(c)
        \/ UpsertGetVectorFieldName(c)
        \/ UpsertUploadDocuments(c)
        \/ InvokeQuery(c)
        \/ QueryGetVectorFieldName(c)
        \/ QuerySearch(c)
        \/ InvokeUpdateVector(c)
        \/ UpdateGetVectorFieldName(c)
        \/ UpdateGetDocument(c)
        \/ UpdateDescribeGetIndex(c)
        \/ UpdateDescribeGetDocumentsCount(c)
        \/ UpdateMergeDocuments(c)
        \/ InvokeDeleteVector(c)
        \/ DeleteVectorCall(c)
        \/ Return(c)

AdapterSpec == AdapterInit /\ [][AdapterNext]_vars

-----------------------------------------------------------------------------
(* Two updateVector calls in flight on one document *)

RaceCallers == {"c1", "c2"}

\* updates of the vector alone and of the metadata alone
RaceUpdates == {[vector |-> V34, metadata |-> Void], [vector |-> Void, metadata |-> MetaTypeT]}

RaceParams == {[indexName |-> "products", id |-> "k1", update |-> u] : u \in RaceUpdates}

\* the index holds the document k1; neither caller has called updateVector yet
RaceInit ==
    /\ store = [n \in IndexNames |->
                  IF n = "products" THEN Index(DefaultFields("vector", 2), "cosine", <<DocK1>>)
                  ELSE NoIndex]
    /\ tasks = [c \in RaceCallers |-> IdleTask(0)]
    /\ op = "none" /\ arg = UndefinedVal /\ ret = Pending /\ pc = "idle"

\* updateVector is called once by the caller, on the document k1
InvokeUpdateVectorOnce(c) ==
    /\ tasks[c].pc = "idle" /\ tasks[c].ops = 0
    /\ \E params \in RaceParams :
          tasks' = [tasks EXCEPT ![c] =
                      IF NoUpdates(params.update)
                      THEN SettledAtOnce(@, "updateVector", params,
                               Rejected(UpdateVectorFailed(params,
                                            PlainError("No updates provided"))))
                      ELSE Awaiting(@, "updateVector", params, "getVectorFieldName", Void)]
    /\ UNCHANGED <<store, translatorVars>>

\* the calls of the two callers are answered one at a time, in any order
RaceNext ==
    \E c \in RaceCallers :
        \/ InvokeUpdateVectorOnce(c)
        \/ UpdateGetVectorFieldName(c)
        \/ UpdateGetDocument(c)
        \/ UpdateDescribeGetIndex(c)
        \/ UpdateDescribeGetDocumentsCount(c)
        \/ UpdateMergeDocuments(c)

RaceSpec == RaceInit /\ [][RaceNext]_vars


-----------------------------------------------------------------------------
(* C17: upsert and the dimension of the vectors *)

\* the names of the service calls a task has made, in order
Apis(task) == [i \in 1..Len(task.calls) |-> task.calls[i].api]

IsDimensionError(error) ==
    error.kind = "Error" /\ error.message = "Vector has invalid dimension"

\* upsert has been rejected because a vector has not the index's dimension
RejectedForDimension(task) ==
    /\ task.op = "upsert" /\ task.pc = "done"
    /\ task.result.kind = "rejected"
    /\ IsDimensionError(task.result.error.cause)

\* some vector of the upsert has a length other than the dimension the
\* service declares for the index
HasMismatch(task) ==
    /\ store[task.params.indexName].exists
    /\ DescribeIndexStats(store[task.params.indexName], 0).ok
    /\ \E i \in 1..Len(task.params.vectors) :
          Len(task.params.vectors[i].items)
             # DescribeIndexStats(store[task.params.indexName], 0).value.dimension

\* C17 as stated: an upsert rejected for a vector whose length differs from the
\* index's declared dimension has made no call to the service.
C17_RejectedBeforeAnyCall ==
    \A c \in Callers : RejectedForDimension(tasks[c]) => tasks[c].calls = <<>>

\* C17, amended: an upsert is rejected for a dimension mismatch once
\* describeIndex has read the index (getIndex, then getDocumentsCount, both
\* answered) and before anything else is called: the rejected upsert has made
\* exactly these two calls, and an upsert that has called anything after them
\* (getVectorFieldName's getIndex, uploadDocuments) has no mismatching vector.
C17_RejectedAfterDescribeBeforeUpload ==
    \A c \in Callers :
        /\ RejectedForDimension(tasks[c])
              => /\ Apis(tasks[c]) = <<"getIndex", "getDocumentsCount">>
                 /\ \A i \in 1..2 : tasks[c].calls[i].ok
                 /\ tasks[c].result.error.id = "STORAGE_AZURE_AI_SEARCH_UPSERT_FAILED"
        /\ (tasks[c].op = "upsert" /\ Len(tasks[c].calls) > 2) => ~HasMismatch(tasks[c])

C17_Witness ==
    \E c \in Callers :
        /\ RejectedForDimension(tasks[c])
        /\ HasMismatch(tasks[c])
        /\ Len(tasks[c].calls) = 2


-----------------------------------------------------------------------------
(* C18: upsert and a batch that the service stores in part *)

LastCall(task) == task.calls[Len(task.calls)]

\* uploadDocuments has answered the upsert, and some document of the batch failed
UploadedInPart(task) ==
    /\ task.op = "upsert" /\ task.pc = "done"
    /\ task.calls # <<>>
    /\ LastCall(task).api = "uploadDocuments"
    /\ LastCall(task).ok
    /\ \E i \in 1..Len(LastCall(task).response.value.results) :
          ~LastCall(task).response.value.results[i].succeeded

FailedResults(results) == {i \in 1..Len(results) : ~results[i].succeeded}

FirstFailed(results) ==
    results[CHOOSE i \in FailedResults(results) : \A j \in FailedResults(results) : i <= j]

\* the error's own details report how many documents failed and the key and
\* message of the first one
ReportsFailures(error, results) ==
    /\ {"failedCount", "firstFailedKey", "firstFailedError"} \subseteq DOMAIN error.details
    /\ error.details.failedCount = Cardinality(FailedResults(results))
    /\ error.details.firstFailedKey = FirstFailed(results).key
    /\ error.details.firstFailedError
          = IF FirstFailed(results).errorMessage = <<>> THEN M_noErrorMessage
            ELSE FirstFailed(results).errorMessage

\* the documents the service reported as stored are in the index as uploaded
SucceededAreCommitted(task) ==
    \A i \in 1..Len(LastCall(task).request) :
        LastCall(task).response.value.results[i].succeeded
           => \E j \in 1..Len(store[task.params.indexName].docs) :
                 store[task.params.indexName].docs[j].id = LastCall(task).request[i].id

\* C18: when uploadDocuments reports that some documents of the batch failed,
\* upsert is rejected (no ids are returned) with one error that reports the
\* failure count and the first failing key and message, and the documents that
\* succeeded remain committed in the service.
C18_PartialFailureIsOneAggregateError ==
    \A c \in Callers :
        UploadedInPart(tasks[c])
           => /\ tasks[c].result.kind = "rejected"
              /\ ReportsFailures(tasks[c].result.error,
                                 LastCall(tasks[c]).response.value.results)
              /\ SucceededAreCommitted(tasks[c])

\* what the code does instead: the aggregate error is the cause of the error
\* the caller receives
C18_AggregateIsOnlyTheCause ==
    \A c \in Callers :
        UploadedInPart(tasks[c])
           => /\ tasks[c].result.kind = "rejected"
              /\ tasks[c].result.error.id = "STORAGE_AZURE_AI_SEARCH_UPSERT_FAILED"
              /\ DOMAIN tasks[c].result.error.details = {"indexName", "vectorCount"}
              /\ ReportsFailures(tasks[c].result.error.cause,
                                 LastCall(tasks[c]).response.value.results)
              /\ SucceededAreCommitted(tasks[c])


-----------------------------------------------------------------------------
(* C19: failures of the service and what the caller receives *)

\* the identifier each operation gives to the error it throws on a failure
FailedId(operation) ==
    CASE operation = "createIndex" -> "STORAGE_AZURE_AI_SEARCH_CREATE_INDEX_FAILED"
      [] operation = "listIndexes" -> "STORAGE_AZURE_AI_SEARCH_LIST_INDEXES_FAILED"
      [] operation = "describeIndex" -> "STORAGE_AZURE_AI_SEARCH_DESCRIBE_INDEX_FAILED"
      [] operation = "deleteIndex" -> "STORAGE_AZURE_AI_SEARCH_DELETE_INDEX_FAILED"
      [] operation = "upsert" -> "STORAGE_AZURE_AI_SEARCH_UPSERT_FAILED"
      [] operation = "query" -> "STORAGE_AZURE_AI_SEARCH_QUERY_FAILED"
      [] operation = "updateVector" -> "STORAGE_AZURE_AI_SEARCH_UPDATE_VECTOR_FAILED"
      [] operation = "deleteVector" -> "STORAGE_AZURE_AI_SEARCH_DELETE_VECTOR_FAILED"

\* `cause` is the cause of the error, or the cause of its cause, and so on
RECURSIVE InCauseChain(_, _)
InCauseChain(error, cause) ==
    /\ error.kind = "MastraError"
    /\ \/ error.cause = cause
       \/ InCauseChain(error.cause, cause)

\* the error's details name the parameters of the task's operation
CarriesParams(task, error) ==
    \/ task.op = "listIndexes"
    \/ /\ error.details.indexName = task.params.indexName
       /\ task.op \in {"updateVector", "deleteVector"} => error.details.id = task.params.id

\* the i-th call of the task failed, and the task's operation was rejected with
\* its own categorized error, which carries the parameters and the failure
Resignaled(task, i) ==
    /\ i = Len(task.calls)
    /\ task.pc = "done"
    /\ task.result.kind = "rejected"
    /\ task.result.error.kind = "MastraError"
    /\ task.result.error.id = FailedId(task.op)
    /\ task.result.error.category = "THIRD_PARTY"
    /\ CarriesParams(task, task.result.error)
    /\ InCauseChain(task.result.error, task.calls[i].response.error)

\* the i-th call of the task is the getIndex of getVectorFieldName
IsFieldLookup(task, i) ==
    /\ task.calls[i].api = "getIndex"
    /\ \/ task.op = "upsert" /\ i = 3
       \/ task.op \in {"query", "updateVector"} /\ i = 1

\* the failed i-th call of the task is one the operation takes for success
IsTolerated(task, i) ==
    \/ task.op = "createIndex" /\ IsAlreadyExists(task.calls[i].response.error)
    \/ task.op = "deleteVector" /\ task.calls[i].response.error.statusCode = 404

\* C19 as stated: every failed call to the service, in any operation, ends the
\* operation with a categorized error carrying the operation's identifier, its
\* parameters and the failure as its cause.
C19_EveryFailureIsResignaled ==
    \A c \in Callers :
        \A i \in 1..Len(tasks[c].calls) :
            ~tasks[c].calls[i].ok => Resignaled(tasks[c], i)

\* C19, amended: a failed call to the service ends the operation with a
\* categorized error carrying the operation's identifier, its parameters and
\* the failure in its chain of causes, except for three failures that are not
\* signaled at all: getIndex inside getVectorFieldName (upsert, query and
\* updateVector go on with the field name 'vector'), 409 or 'already exists'
\* from createIndex, and 404 from deleteVector (both complete successfully).
C19_FailuresResignaledButThree ==
    \A c \in Callers :
        \A i \in 1..Len(tasks[c].calls) :
            ~tasks[c].calls[i].ok
               => IF IsFieldLookup(tasks[c], i)
                  THEN ~Resignaled(tasks[c], i)
                  ELSE IF IsTolerated(tasks[c], i)
                  THEN tasks[c].pc = "done" /\ tasks[c].result = Resolved(Void)
                  ELSE Resignaled(tasks[c], i)

\* an upsert whose field lookup failed without consequence and whose upload
\* failed and was signaled
C19_Witness ==
    \E c \in Callers :
        /\ tasks[c].op = "upsert" /\ Len(tasks[c].calls) = 4
        /\ ~tasks[c].calls[3].ok
        /\ ~tasks[c].calls[4].ok
        /\ Resignaled(tasks[c], 4)


-----------------------------------------------------------------------------
(* C20: createIndex on an index that exists *)

\* the service has answered the task's createIndex call with 409 or with an
\* 'already exists' message
AnsweredAlreadyExists(task) ==
    /\ task.op = "createIndex" /\ task.pc = "done"
    /\ task.calls # <<>>
    /\ LastCall(task).api = "createIndex"
    /\ ~LastCall(task).ok
    /\ LastCall(task).response.error \in ConflictErrors

\* C20: when the service answers createIndex with status 409 or an 'already
\* exists' message, the operation completes successfully having made exactly
\* one call, the create call, and the service's indexes are as they were; this
\* is so for each createIndex a caller makes, the first and the repeated one.
C20_ExistingIndexIsNoOp ==
    [][\A c \in Callers :
          (tasks[c].pc = "createIndex" /\ AnsweredAlreadyExists(tasks'[c]))
             => /\ tasks'[c].result = Resolved(Void)
                /\ Apis(tasks'[c]) = <<"createIndex">>
                /\ store' = store]_vars

\* the second createIndex of a caller, answered like that, has completed
C20_Witness ==
    \E c \in Callers :
        /\ AnsweredAlreadyExists(tasks[c])
        /\ tasks[c].ops = 1
        /\ tasks[c].result.kind = "resolved"
        /\ LastCall(tasks[c]).response.error.statusCode # 409


-----------------------------------------------------------------------------
(* C21: deleteVector of a document that is not there *)

\* the index of the task's parameters exists and holds no document with the
\* task's id
IsMissing(st, task) ==
    /\ st[task.params.indexName].exists
    /\ DocAt(st[task.params.indexName].docs, task.params.id) = 0

\* the service has answered the task's last call: with a result, or with 404
AnsweredOrNotFound(task) ==
    \/ LastCall(task).ok
    \/ LastCall(task).response.error.statusCode = 404

\* C21: deleteVector of an id the index does not hold (never stored, or deleted
\* before) resolves, whether the service answers with success, with a result
\* that has not succeeded or with 404, and the stored documents are as they were.
C21_DeleteOfMissingResolves ==
    [][\A c \in Callers :
          (/\ tasks[c].op = "deleteVector" /\ tasks[c].pc = "deleteDocuments"
           /\ IsMissing(store, tasks[c])
           /\ tasks'[c].pc = "done"
           /\ AnsweredOrNotFound(tasks'[c]))
             => /\ tasks'[c].result = Resolved(Void)
                /\ store' = store]_vars

\* the caller's second operation is a deleteVector of a missing id that the
\* service answered with 404, and it has resolved
C21_Witness ==
    \E c \in Callers :
        /\ tasks[c].op = "deleteVector" /\ tasks[c].pc = "done"
        /\ tasks[c].ops = 1
        /\ IsMissing(store, tasks[c])
        /\ ~LastCall(tasks[c]).ok
        /\ LastCall(tasks[c]).response.error.statusCode = 404
        /\ tasks[c].result.kind = "resolved"


-----------------------------------------------------------------------------
(* C22: query and its filter *)

\* the positions of the task's calls to `api`
CallsTo(task, api) == {i \in 1..Len(task.calls) : task.calls[i].api = api}

\* the filter of the task's search call
SearchFilter(task) == task.calls[CHOOSE i \in CallsTo(task, "search") : TRUE].request.filter

\* C22: a query that calls search calls it once, with the translation of its
\* filter parameter as the request's filter: the raw string of a raw filter,
\* the rendering of a structured one, and no filter at all when no filter is
\* given or the filter renders empty.
C22_SearchCarriesTranslatedFilter ==
    \A c \in Callers :
        (tasks[c].op = "query" /\ CallsTo(tasks[c], "search") # {})
           => /\ Cardinality(CallsTo(tasks[c], "search")) = 1
              /\ SearchFilter(tasks[c]) = translate(tasks[c].params.filter)
              /\ tasks[c].params.filter \in {UndefinedVal, EmptyNode}
                    => SearchFilter(tasks[c]) = ReturnedUndefined
              /\ tasks[c].params.filter = RawNode
                    => SearchFilter(tasks[c]) = Returned(<<"r">>)
              /\ tasks[c].params.filter = LeafA
                    => SearchFilter(tasks[c])
                          = Returned(<<"a", " ", "e", "q", " ", "1">>)

\* a query with a structured filter of two fields has called search with a
\* filter string
C22_Witness ==
    \E c \in Callers :
        /\ tasks[c].op = "query" /\ tasks[c].pc = "done"
        /\ tasks[c].params.filter = LeafMulti
        /\ CallsTo(tasks[c], "search") # {}
        /\ SearchFilter(tasks[c]).kind = "string"
        /\ tasks[c].result.kind = "resolved"


-----------------------------------------------------------------------------
(* C23: query and includeVector *)

-----------------------------------------------------------------------------
(* C24: the ids upsert returns and the documents it uploads *)

\* the documents of the task's uploadDocuments call
Uploaded(task) == task.calls[CHOOSE i \in CallsTo(task, "uploadDocuments") : TRUE].request

\* the id is none a caller has given and none a document is stored under
IsFresh(id) == id \notin Keys /\ id # "undefined"

\* C24: an upsert that succeeds returns the caller's ids as they were given,
\* and without ids returns one new id per vector, all different; the i-th
\* document it uploaded has the i-th returned id, the i-th vector, and as
\* metadata the JSON text of the i-th metadata, `{}` when there is none.
C24_UpsertReturnsIdsOfItsDocuments ==
    \A c \in Callers :
        (tasks[c].op = "upsert" /\ tasks[c].pc = "done" /\ tasks[c].result.kind = "resolved")
           => /\ tasks[c].params.ids.t # "undefined"
                    => tasks[c].result.value = tasks[c].params.ids.items
              /\ tasks[c].params.ids.t = "undefined"
                    => /\ Len(tasks[c].result.value) = Len(tasks[c].params.vectors)
                       /\ \A i, j \in 1..Len(tasks[c].result.value) :
                             /\ IsFresh(tasks[c].result.value[i])
                             /\ tasks[c].result.value[i] = tasks[c].result.value[j] => i = j
              /\ Len(Uploaded(tasks[c])) = Len(tasks[c].params.vectors)
              /\ \A i \in 1..Len(tasks[c].params.vectors) :
                    /\ Uploaded(tasks[c])[i].id = IdAt(tasks[c].result.value, i)
                    /\ Uploaded(tasks[c])[i].vector = tasks[c].params.vectors[i]
                    /\ JSONParse(Uploaded(tasks[c])[i].metadata)
                          = Ok(IF i <= Len(tasks[c].params.metadata)
                               THEN tasks[c].params.metadata[i] ELSE Meta(<<>>))
                    /\ i > Len(tasks[c].params.metadata)
                          => Uploaded(tasks[c])[i].metadata = <<"{", "}">>

\* an upsert of two vectors with the caller's ids and one metadata has succeeded
C24_Witness ==
    \E c \in Callers :
        /\ tasks[c].op = "upsert" /\ tasks[c].pc = "done"
        /\ tasks[c].result.kind = "resolved"
        /\ Len(tasks[c].params.vectors) = 2
        /\ Len(tasks[c].params.metadata) = 1
        /\ tasks[c].params.ids.t # "undefined"
        /\ tasks[c].result.value = <<"k2", "k1">>


-----------------------------------------------------------------------------
(* C25: createIndex and its dimension *)

\* the number is one of 1, 2, 3, ...
IsPositiveInteger(number) ==
    /\ number.fin
    /\ ~number.neg
    /\ \E n \in 1..number.mant : number.mant = n * Pow10(number.scale)

\* C25: a createIndex whose dimension is no positive integer (zero, negative,
\* not an integer, not a number) is rejected with the error that says
\* 'Dimension must be a positive integer', and calls nothing of the service.
C25_InvalidDimensionIsRejectedUncalled ==
    \A c \in Callers :
        (tasks[c].op = "createIndex" /\ ~IsPositiveInteger(tasks[c].params.dimension))
           => /\ tasks[c].pc = "done"
              /\ tasks[c].result.kind = "rejected"
              /\ tasks[c].result.error.id
                    = "STORAGE_AZURE_AI_SEARCH_CREATE_INDEX_INVALID_DIMENSION"
              /\ tasks[c].result.error.text = "Dimension must be a positive integer"
              /\ tasks[c].calls = <<>>

\* createIndex with dimension 2.5 has been rejected
C25_Witness ==
    \E c \in Callers :
        /\ tasks[c].op = "createIndex" /\ tasks[c].pc = "done"
        /\ tasks[c].params.dimension = NumVal(FALSE, 25, 1)
        /\ tasks[c].result.kind = "rejected"
        /\ tasks[c].calls = <<>>


-----------------------------------------------------------------------------
(* C26: what updateVector merges *)

\* what getDocument has answered the task
GetDocumentAnswer(task) ==
    task.calls[CHOOSE i \in CallsTo(task, "getDocument") : TRUE].response

\* the document of the task's mergeDocuments call
MergeSent(task) == task.calls[CHOOSE i \in CallsTo(task, "mergeDocuments") : TRUE].request

VectorGiven(task) == task.params.update.vector.t # "undefined"
MetadataGiven(task) == task.params.update.metadata.t # "undefined"

\* the one document the task has sent keeps what the update leaves out as
\* getDocument returned it; a vector that getDocument did not return under the
\* vector field's name is left out of the document
SentKeepsTheRest(task) ==
    CallsTo(task, "mergeDocuments") # {}
       => /\ Cardinality(CallsTo(task, "mergeDocuments")) = 1
          /\ MergeSent(task).id = task.params.id
          /\ IF VectorGiven(task)
             THEN MergeSent(task).vector = task.params.update.vector
             ELSE MergeSent(task).vector \in {GetDocumentAnswer(task).value.vector, Void}
          /\ IF MetadataGiven(task)
             THEN JSONParse(MergeSent(task).metadata) = Ok(task.params.update.metadata)
             ELSE MergeSent(task).metadata = GetDocumentAnswer(task).value.metadata
          /\ (~MetadataGiven(task) \/ MetaContent(task.params.update.metadata) = Void)
                => MergeSent(task).content = GetDocumentAnswer(task).value.content

\* getDocument has answered the task that there is no such document
DocumentMissing(task) ==
    /\ CallsTo(task, "getDocument") # {}
    /\ \/ ~GetDocumentAnswer(task).ok
       \/ GetDocumentAnswer(task).value = NullVal

\* with nothing to update or no document to update, the task has failed and
\* has not called mergeDocuments
FailsUnmerged(task) ==
    (~(VectorGiven(task) \/ MetadataGiven(task)) \/ DocumentMissing(task))
       => /\ task.pc = "done"
          /\ task.result.kind = "rejected"
          /\ CallsTo(task, "mergeDocuments") = {}

\* the stored document `new` is `old` with the parts the update gives
StoredKeepsTheRest(task, old, new) ==
    /\ new.id = old.id
    /\ new.vector = IF VectorGiven(task) THEN task.params.update.vector ELSE old.vector
    /\ IF MetadataGiven(task)
       THEN JSONParse(new.metadata) = Ok(task.params.update.metadata)
       ELSE new.metadata = old.metadata
    /\ (~MetadataGiven(task) \/ MetaContent(task.params.update.metadata) = Void)
          => new.content = old.content

StoredDoc(st, task) ==
    st[task.params.indexName].docs[DocAt(st[task.params.indexName].docs, task.params.id)]

\* C26: updateVector sends one document to mergeDocuments, in which the vector
\* is the update's or else the existing one (or none), the metadata is the
\* update's as JSON or else the existing text, and the content is the existing
\* one when the update's metadata has none; after the merge the stored
\* document differs from the one before in the given parts only; an update
\* with neither vector nor metadata, or of a document that is not there, fails
\* without a mergeDocuments call.
C26_UpdateMergesGivenPartsOnly ==
    [][\A c \in Callers :
          tasks'[c].op = "updateVector"
             => /\ SentKeepsTheRest(tasks'[c])
                /\ FailsUnmerged(tasks'[c])
                /\ (tasks[c].pc = "mergeDocuments" /\ tasks'[c].result.kind = "resolved")
                      => StoredKeepsTheRest(tasks[c], StoredDoc(store, tasks[c]),
                                            StoredDoc(store', tasks[c]))]_vars

\* an update of the vector alone has been merged into a document that has
\* metadata and content
C26_Witness ==
    \E c \in Callers :
        /\ tasks[c].op = "updateVector" /\ tasks[c].pc = "done"
        /\ tasks[c].result.kind = "resolved"
        /\ tasks[c].params.update = [vector |-> V34, metadata |-> Void]
        /\ StoredDoc(store, tasks[c]).vector = V34
        /\ StoredDoc(store, tasks[c]).metadata = JSONStringify(MetaContentC)
        /\ StoredDoc(store, tasks[c]).content = <<"c">>


-----------------------------------------------------------------------------
(* C27: the vector field *)

\* the position of getVectorFieldName's getIndex in the calls of the task's
\* operation
FieldLookupAt(task) == IF task.op = "upsert" THEN 3 ELSE 1

HasLookedUp(task) ==
    /\ task.op \in {"upsert", "query", "updateVector"}
    /\ Len(task.calls) >= FieldLookupAt(task)

\* the positions of the fields that are collections of single-precision
\* numbers and declare a dimension
SingleCollections(fields) ==
    {i \in 1..Len(fields) :
        /\ fields[i].type = "Collection(Edm.Single)"
        /\ (fields[i].dimensions # 0 \/ fields[i].vectorSearchDimensions # 0)}

\* the name the task is to use, given what getIndex answered
FieldToUse(response) ==
    IF response.ok /\ SingleCollections(response.value.fields) # {}
    THEN response.value.fields[CHOOSE i \in SingleCollections(response.value.fields) :
                                  \A j \in SingleCollections(response.value.fields) : i <= j].name
    ELSE "vector"

\* the names of the vector field in the requests the task has made after the
\* lookup
FieldsUsed(task) ==
    UNION {{task.calls[i].request[j].vectorField : j \in 1..Len(task.calls[i].request)} :
              i \in CallsTo(task, "uploadDocuments")}
    \cup {task.calls[i].request.vectorField : i \in CallsTo(task, "mergeDocuments")}
    \cup {task.calls[i].request.vectorQueries[1].fields[1] : i \in CallsTo(task, "search")}

\* the lookup is the task's last call and the task has ended
EndedAtLookup(task) == Len(task.calls) = FieldLookupAt(task) /\ task.pc = "done"

\* C27: upsert, query and updateVector use as vector field the first field of
\* the index that is a collection of single-precision numbers with a dimension,
\* and 'vector' when the index has none or getIndex fails; the operation then
\* goes on to its next step (a query ends there only when its filter cannot be
\* translated).
C27_VectorFieldIsDetectedOrDefault ==
    \A c \in Callers :
        HasLookedUp(tasks[c])
           => /\ FieldsUsed(tasks[c])
                    \subseteq {FieldToUse(tasks[c].calls[FieldLookupAt(tasks[c])].response)}
              /\ EndedAtLookup(tasks[c])
                    => /\ tasks[c].op = "query"
                       /\ IsThrow(translate(tasks[c].params.filter))

\* after a failed lookup a task has used 'vector', and another task has used
\* the field 'embedding' of its index
C27_Witness ==
    \E c \in Callers :
        /\ HasLookedUp(tasks[c])
        /\ \/ /\ ~tasks[c].calls[FieldLookupAt(tasks[c])].ok
              /\ FieldsUsed(tasks[c]) = {"vector"}
              /\ tasks[c].op = "upsert"
           \/ FieldsUsed(tasks[c]) = {"embedding"}


-----------------------------------------------------------------------------
(* C28: the raw filter below the root *)

\* the node with the $filter property taken off it and off every node below it
RECURSIVE WithoutRaw(_)
WithoutRaw(node) ==
    LET kept == SelectSeq(node.entries, LAMBDA e : e[1] # "$filter")
    IN Obj([i \in 1..Len(kept) |->
               IF kept[i][1] \in {"and", "or"}
               THEN <<kept[i][1], [j \in 1..Len(kept[i][2]) |-> WithoutRaw(kept[i][2][j])]>>
               ELSE IF kept[i][1] = "not" THEN <<"not", WithoutRaw(kept[i][2])>>
               ELSE kept[i]])

\* the node with the $filter property taken off every node below it only
WithoutRawBelow(node) ==
    Obj([i \in 1..Len(node.entries) |->
            IF node.entries[i][1] \in {"and", "or"}
            THEN <<node.entries[i][1],
                   [j \in 1..Len(node.entries[i][2]) |-> WithoutRaw(node.entries[i][2][j])]>>
            ELSE IF node.entries[i][1] = "not" THEN <<"not", WithoutRaw(node.entries[i][2])>>
            ELSE node.entries[i]])

\* { and: [{ $filter: 'r' }] }
AndOfRaw == Obj(<< <<"and", <<RawNode>> >> >>)

\* C28: the raw field is honored only on the root expression.  translate
\* returns what it returns for the same filter with $filter taken off every
\* node below the root, and a node is rendered (translateFilter) as the same
\* node with no $filter anywhere; so a node that has nothing but $filter
\* renders empty, and { and: [{ $filter: s }] } translates to absent.
C28_RawIsHonoredOnTheRootOnly ==
    /\ (TranslateDone /\ arg.t = "object") => ret = translate(WithoutRawBelow(arg))
    /\ TranslateFilterDone => ret = translateFilter(WithoutRaw(arg))
    /\ (TranslateFilterDone /\ arg = RawNode) => ret = Returned(<<>>)
    /\ (TranslateDone /\ arg = AndOfRaw) => ret = ReturnedUndefined

C28_Witness == TranslateDone /\ arg = AndOfRaw /\ ret = ReturnedUndefined

-----------------------------------------------------------------------------
(* C29: upsert uploads only after the dimensions have been validated *)

\* describeIndex, as the upsert's call log tells it: both of its calls have
\* answered and the schema has a vector field with a dimension
DescribeAnswered(task) ==
    /\ Len(task.calls) >= 2
    /\ task.calls[1].api = "getIndex" /\ task.calls[1].ok
    /\ task.calls[2].api = "getDocumentsCount" /\ task.calls[2].ok
    /\ \E i \in 1..Len(task.calls[1].response.value.fields) :
          \/ IsVectorField(task.calls[1].response.value.fields[i])
          \/ /\ task.calls[1].response.value.fields[i].name = "vector"
             /\ FieldDimensions(task.calls[1].response.value.fields[i]) # 0

\* the dimension describeIndex reports for the schema getIndex answered
ReportedDimension(task) ==
    DescribeIndexStats(task.calls[1].response.value, task.calls[2].response.value).value.dimension

\* every supplied vector has the reported dimension
ValidationPassed(task) ==
    /\ DescribeAnswered(task)
    /\ \A i \in 1..Len(task.params.vectors) :
          Len(task.params.vectors[i].items) = ReportedDimension(task)

\* the step belongs to one upsert: it is none of Invoke and Return
IsUpsertStep(old, new) ==
    /\ old.op = "upsert" /\ new.op = "upsert" /\ old.ops = new.ops
    /\ Len(new.calls) = Len(old.calls) + 1

\* C29: in upsert, documents are uploaded only after the dimension validation
\* has passed.  While describeIndex has failed or some supplied vector has a
\* length other than the dimension it reported, no step of the upsert calls
\* uploadDocuments and none changes the documents of the store.
C29_UploadOnlyAfterValidation ==
    [][\A c \in Callers :
          (IsUpsertStep(tasks[c], tasks'[c]) /\ ~ValidationPassed(tasks'[c]))
             => /\ CallsTo(tasks'[c], "uploadDocuments") = {}
                /\ store' = store]_vars

\* an upsert that has ended on a vector of the wrong length after one of the
\* right length, or on a failed describeIndex, with the index left as it was
C29_Witness ==
    \E c \in Callers :
        /\ tasks[c].op = "upsert" /\ tasks[c].pc = "done"
        /\ tasks[c].params.vectors = <<V12, V123>>
        /\ DescribeAnswered(tasks[c]) /\ ReportedDimension(tasks[c]) = 2
        /\ ~ValidationPassed(tasks[c])
        /\ CallsTo(tasks[c], "uploadDocuments") = {}
        /\ tasks[c].result.kind = "rejected"

-----------------------------------------------------------------------------
(* C30: two interleaved updateVector calls on one document *)

\* getDocument has returned the task the document with its vector
SnapshotHasVector(task) ==
    /\ CallsTo(task, "getDocument") # {}
    /\ GetDocumentAnswer(task).ok
    /\ GetDocumentAnswer(task).value # NullVal
    /\ GetDocumentAnswer(task).value.vector # Void

\* the step is the task's mergeDocuments call and the service has merged
HasMerged(old, new) ==
    /\ old.op = "updateVector" /\ old.pc = "mergeDocuments"
    /\ new.pc = "done" /\ new.result.kind = "resolved"

\* the task has updated the vector alone / the metadata alone and has resolved
UpdatedVectorOnly(task) ==
    /\ task.op = "updateVector" /\ task.pc = "done" /\ task.result.kind = "resolved"
    /\ task.params.update = [vector |-> V34, metadata |-> Void]
UpdatedMetadataOnly(task) ==
    /\ task.op = "updateVector" /\ task.pc = "done" /\ task.result.kind = "resolved"
    /\ task.params.update = [vector |-> Void, metadata |-> MetaTypeT]

\* C30: updateVector is a non-atomic read-modify-write.  Whatever the other
\* call has merged since, a merge of updateVector that has read the document
\* with its vector leaves the stored document as the snapshot it read with
\* the parts its own update gives: the part it does not update is written
\* back as it was read, so that an update merged in between is lost.
C30_MergeWritesBackTheSnapshot ==
    [][\A c \in RaceCallers :
          (HasMerged(tasks[c], tasks'[c]) /\ SnapshotHasVector(tasks'[c]))
             => StoredKeepsTheRest(tasks'[c], GetDocumentAnswer(tasks'[c]).value,
                                   StoredDoc(store', tasks'[c]))]_vars

\* both calls have resolved, one having updated the vector alone and the
\* other the metadata alone, both having read the vector, and the stored
\* document has the old vector or the old metadata
C30_Witness ==
    \E c, d \in RaceCallers :
        /\ UpdatedVectorOnly(tasks[c]) /\ UpdatedMetadataOnly(tasks[d])
        /\ SnapshotHasVector(tasks[c]) /\ SnapshotHasVector(tasks[d])
        /\ \/ StoredDoc(store, tasks[c]).vector = V12
           \/ StoredDoc(store, tasks[c]).metadata = JSONStringify(MetaContentC)

=============================================================================
